---- MODULE Spec2Model ----
(***************************************************************************)
(* Model of the version-resolution core of the node-env extension:         *)
(*   - CacheManager (src/src/utils/cacheManager.ts)                        *)
(*   - TerminalService.isVersionMatch and its helpers                      *)
(*     (src/src/services/projectDetector.ts)                               *)
(*   - EnvironmentDetector.detectAllManagers                               *)
(*     (src/src/services/environmentDetector.ts)                           *)
(*   - ConfigReaderService.getProjectNodeVersion (src/unnamed/part_000)    *)
(*   - TerminalService.handleTerminalCreated and initializeExtension       *)
(*     (src/src/services/projectDetector.ts, src/src/extension.ts)         *)
(*   - NodeManagerService (src/src/services/fileWatcher.ts)                *)
(*   - VersionCache and NVMManager.getCurrentVersion                       *)
(*     (src/src/utils/versionCache.ts, src/src/managers/nvm.ts)            *)
(*                                                                         *)
(* JavaScript strings are sequences of one-character strings, so that      *)
(* split, startsWith, parseInt and the relational operators on strings are *)
(* computed as the engine computes them.                                   *)
(***************************************************************************)
EXTENDS Integers, Sequences, FiniteSets, TLC

VARIABLES
    caches,        \* CacheManager.caches: namespace -> key -> CacheEntry
                   \* (VersionCache.cache: key -> CacheEntry in the
                   \* specifications of the VersionCache)
    now,           \* Date.now(), in milliseconds
    ticks,         \* clock advances made so far
    current,       \* isVersionMatch: argument `current`
    required,      \* isVersionMatch: argument `required`
    matchResult,   \* isVersionMatch: value the last call resolved to
    matchCalls,    \* isVersionMatch: calls made so far
    producerRuns,  \* isVersionMatch: times the cached producer body ran
    platform,      \* PlatformUtils.isWindows() ? "windows" : "unix" (the
                   \* text of platformInfo.type where keys are built from it)
    detectRuns,    \* the detectAllManagers invocations: position and locals
    files,         \* the configuration files under the workspace root
    writes,        \* changes made to those files so far
    configRuns,    \* the getProjectNodeVersion invocations: position and locals
    cacheCalls,    \* the cached() invocations of a client (the
                   \* getCurrentVersion invocations): position and locals
    lastSet,       \* key -> the arguments and time of the last set on it
                   \* (file -> the time of the last write to it)
    lastGet,       \* what the last direct get returned
    cacheOps,      \* direct set / get calls made so far
    commands,      \* the commands started through executeGenericCommand and
                   \* NVMManager.executeShellCommand: promise and child state
                   \* (the `node --version` executions of getCurrentVersion)
    hasConfig,     \* what the last hasConfigFiles(root) call returned
    lastCall,      \* the last set / delete / clear / eviction / reader call
                   \* a client made
    queries,       \* run -> the getPreferredManager / isManagerAvailable call
                   \* that made it, and what the call returned (the calls
                   \* made on NodeManagerService, in order)
    settings,      \* nodeEnv.autoSwitch and nodeEnv.terminalIntegration
    autoSwitchEnabled, \* TerminalService.autoSwitchEnabled
    activation,    \* initializeExtension: the await it is at
    activeManager, \* NodeManagerService.activeManager, by name
    installed,     \* the manager detectAndSetActiveManager finds, if any
    nodeVersion,   \* what manager.getCurrentVersion() resolves to
    terminals      \* terminal -> window state, texts sent to it, membership
                   \* of processedTerminals, handleTerminalCreated calls

cacheVars == <<caches, now, ticks>>

configVars == <<files, writes, configRuns>>

matchVars == <<current, required, matchResult, matchCalls, producerRuns>>

detectVars == <<platform, detectRuns>>

clientVars == <<cacheCalls, lastSet, lastGet, cacheOps>>

commandVars == <<commands>>

terminalVars == <<settings, autoSwitchEnabled, activation, activeManager,
                  installed, nodeVersion, terminals>>

callerVars == <<hasConfig, lastCall, queries, terminalVars>>

vars == <<cacheVars, matchVars, detectVars, configVars, clientVars, commandVars,
          callerVars>>


(***************************************************************************)
(* Bounds of the model                                                     *)
(***************************************************************************)
\* isVersionMatch calls made on one (current, required) pair
MaxMatchCalls == 2
\* set / delete / clear calls a client makes on the store
MaxStoreOps == 4
\* clock advances in one behaviour
MaxTicks == 1
\* dot-separated components of a generated version string
MaxParts == 3
\* detectAllManagers invocations in one behaviour, possibly in flight together
MaxDetectRuns == 2
\* getProjectNodeVersion invocations in one behaviour, possibly in flight
\* together
MaxConfigRuns == 1
\* changes made to the configuration files in one behaviour
MaxWrites == 1
\* cached() invocations of the cache client, possibly in flight together
MaxCacheCalls == 2
\* direct set / get calls of the cache client
MaxCacheOps == 2
\* commands started through a manager, possibly running together
MaxCommands == 2

\* terminals of the window
MaxTerminals == 1

(***************************************************************************)
(* JavaScript values                                                       *)
(***************************************************************************)
\* null / undefined result of a producer
Null == [null |-> TRUE]

\* the extension is not activated
TerminalsIdle ==
    /\ settings = Null
    /\ autoSwitchEnabled = TRUE
    /\ activation = "none"
    /\ activeManager = Null
    /\ installed = Null
    /\ nodeVersion = Null
    /\ terminals = <<>>

\* no caller of the services has acted
CallersIdle ==
    hasConfig = Null /\ lastCall = Null /\ queries = <<>> /\ TerminalsIdle

\* a number is [num |-> n]; NaN is its own value
NaN == [nan |-> TRUE]

Num(n) == [num |-> n]

IsNaN(x) == "nan" \in DOMAIN x

\* a - b on numbers
NumSub(a, b) == IF IsNaN(a) \/ IsNaN(b) THEN NaN ELSE Num(a.num - b.num)

\* a !== b on numbers (NaN !== NaN is true)
NumStrictNe(a, b) == IF IsNaN(a) \/ IsNaN(b) THEN TRUE ELSE a.num # b.num

\* x >= 0, x <= 0, x > 0, x < 0, x === 0 on a number (all false for NaN)
NumGe0(x) == ~IsNaN(x) /\ x.num >= 0

NumLe0(x) == ~IsNaN(x) /\ x.num <= 0

NumGt0(x) == ~IsNaN(x) /\ x.num > 0

NumLt0(x) == ~IsNaN(x) /\ x.num < 0

NumEq0(x) == ~IsNaN(x) /\ x.num = 0

(***************************************************************************)
(* JavaScript strings                                                      *)
(***************************************************************************)
Digits == {"0", "1", "2", "3", "4", "5", "6", "7", "8", "9"}

DigitVal(c) ==
    CASE c = "0" -> 0 [] c = "1" -> 1 [] c = "2" -> 2 [] c = "3" -> 3
      [] c = "4" -> 4 [] c = "5" -> 5 [] c = "6" -> 6 [] c = "7" -> 7
      [] c = "8" -> 8 [] c = "9" -> 9

\* UTF-16 code unit of a character of the model's alphabet
CharCode(c) ==
    CASE c \in Digits -> 48 + DigitVal(c)
      [] c = " " -> 32 [] c = "+" -> 43 [] c = "-" -> 45 [] c = "." -> 46
      [] c = "<" -> 60 [] c = "=" -> 61 [] c = ">" -> 62 [] c = "^" -> 94
      [] c = "_" -> 95 [] c = "a" -> 97 [] c = "b" -> 98 [] c = "e" -> 101
      [] c = "l" -> 108 [] c = "s" -> 115 [] c = "t" -> 116 [] c = "v" -> 118
      [] c = "x" -> 120 [] c = "~" -> 126

WhiteSpace == {" ", "\t", "\n", "\r"}

LineTerminators == {"\n", "\r"}

\* s.startsWith(p)
StartsWith(s, p) == Len(s) >= Len(p) /\ SubSeq(s, 1, Len(p)) = p

\* s.substring(n)
Substring(s, n) == SubSeq(s, n + 1, Len(s))

\* mutant of StripV: the prefix is kept
StripVKept(s) == s

\* s.replace(/^v/, "")
StripV(s) == IF StartsWith(s, <<"v">>) THEN Substring(s, 1) ELSE s

RECURSIVE SplitFrom(_, _, _)
\* split on sep, with `acc` the part being read
SplitFrom(s, sep, acc) ==
    IF s = <<>> THEN <<acc>>
    ELSE IF Head(s) = sep THEN <<acc>> \o SplitFrom(Tail(s), sep, <<>>)
    ELSE SplitFrom(Tail(s), sep, Append(acc, Head(s)))

\* s.split(sep) for a one-character separator
Split(s, sep) == SplitFrom(s, sep, <<>>)

\* parts[i] (0-based) || "0": undefined and "" are both falsy
PartOrZero(parts, i) ==
    IF i + 1 <= Len(parts) /\ parts[i + 1] # <<>> THEN parts[i + 1] ELSE <<"0">>

RECURSIVE SkipWhiteSpace(_)
SkipWhiteSpace(s) ==
    IF s # <<>> /\ Head(s) \in WhiteSpace THEN SkipWhiteSpace(Tail(s)) ELSE s

RECURSIVE DigitPrefixValue(_, _)
\* value of the longest prefix of decimal digits of s, read after `acc`
DigitPrefixValue(s, acc) ==
    IF s # <<>> /\ Head(s) \in Digits
    THEN DigitPrefixValue(Tail(s), 10 * acc + DigitVal(Head(s)))
    ELSE acc

\* parseInt(s, 10): leading white space, an optional sign, then the longest
\* prefix of digits; NaN when there is no digit
parseInt(s) ==
    LET t == SkipWhiteSpace(s)
        neg == t # <<>> /\ Head(t) = "-"
        u == IF t # <<>> /\ Head(t) \in {"+", "-"} THEN Tail(t) ELSE t
    IN  IF u = <<>> \/ Head(u) \notin Digits THEN NaN
        ELSE IF neg THEN Num(0 - DigitPrefixValue(u, 0))
        ELSE Num(DigitPrefixValue(u, 0))

RECURSIVE StrLt(_, _)
\* a < b on two strings: code-unit order
StrLt(a, b) ==
    IF b = <<>> THEN FALSE
    ELSE IF a = <<>> THEN TRUE
    ELSE IF Head(a) = Head(b) THEN StrLt(Tail(a), Tail(b))
    ELSE CharCode(Head(a)) < CharCode(Head(b))

\* a >= b on two strings
StrGe(a, b) == ~StrLt(a, b)

\* the elements of a sequence
Range(seq) == {seq[i] : i \in 1..Len(seq)}

(***************************************************************************)
(* CacheManager                                                            *)
(***************************************************************************)
\* CacheManager.defaultTTL
defaultTTL == 5 * 60 * 1000

\* the value of `caches` after construction: no namespace
EmptyCaches == <<>>

CacheHasEntry(c, ns, key) == ns \in DOMAIN c /\ key \in DOMAIN c[ns]

\* mutant of IsExpired: an entry expires as soon as its age reaches the TTL
IsExpiredAtTTL(entry, t) == t - entry.timestamp >= entry.ttl

\* Date.now() - entry.timestamp > entry.ttl
IsExpired(entry, t) == t - entry.timestamp > entry.ttl

\* CacheManager.get: the value returned (Null when absent or expired)
CacheGet(c, ns, key, t) ==
    IF ~CacheHasEntry(c, ns, key) THEN Null
    ELSE IF IsExpired(c[ns][key], t) THEN Null
    ELSE c[ns][key].value

\* CacheManager.get: the store it leaves (an expired entry is deleted)
CacheAfterGet(c, ns, key, t) ==
    IF CacheHasEntry(c, ns, key) /\ IsExpired(c[ns][key], t)
    THEN [c EXCEPT ![ns] = [k \in DOMAIN c[ns] \ {key} |-> c[ns][k]]]
    ELSE c

\* mutant of CacheSet: an entry that is present is kept (the first set wins)
CacheSetIfAbsent(c, ns, key, value, ttl, t) ==
    IF CacheHasEntry(c, ns, key) THEN c
    ELSE LET old == IF ns \in DOMAIN c THEN c[ns] ELSE <<>>
             entry == [value |-> value, timestamp |-> t, ttl |-> ttl]
             new == [k \in DOMAIN old \cup {key} |->
                        IF k = key THEN entry ELSE old[k]]
         IN  [n \in DOMAIN c \cup {ns} |-> IF n = ns THEN new ELSE c[n]]

\* CacheManager.set: the store it leaves
CacheSet(c, ns, key, value, ttl, t) ==
    LET old == IF ns \in DOMAIN c THEN c[ns] ELSE <<>>
        entry == [value |-> value, timestamp |-> t,
                  ttl |-> IF ttl = 0 THEN defaultTTL ELSE ttl]
        new == [k \in DOMAIN old \cup {key} |-> IF k = key THEN entry ELSE old[k]]
    IN  [n \in DOMAIN c \cup {ns} |-> IF n = ns THEN new ELSE c[n]]

\* CacheManager.cached with a producer that completes without suspending:
\* the value returned, given the value `produced` the producer would return
CachedValue(c, ns, key, produced, t) ==
    IF CacheGet(c, ns, key, t) # Null THEN CacheGet(c, ns, key, t) ELSE produced

\* CacheManager.cached: TRUE iff the producer is invoked
CachedMisses(c, ns, key, t) == CacheGet(c, ns, key, t) = Null

\* CacheManager.cached: the store it leaves
CacheAfterCached(c, ns, key, produced, ttl, t) ==
    IF CachedMisses(c, ns, key, t)
    THEN CacheSet(CacheAfterGet(c, ns, key, t), ns, key, produced, ttl, t)
    ELSE CacheAfterGet(c, ns, key, t)

\* CACHE_NAMESPACES
NS_NODE_VERSIONS == "node_versions"

(***************************************************************************)
(* TerminalService: version matching                                       *)
(***************************************************************************)
\* hasComparisonOperator: /^(>=|<=|>|<|=)/.test(version)
hasComparisonOperator(version) ==
    version # <<>> /\ Head(version) \in {">", "<", "="}

\* the alternatives of /^(>=|<=|>|<|=)(.+)$/ in the order the engine tries them
OperatorAlternatives == << <<">", "=">>, <<"<", "=">>, <<">">>, <<"<">>, <<"=">> >>

\* (.+)$ matches `rest`: non-empty, no line terminator
MatchesDotPlus(rest) ==
    rest # <<>> /\ \A i \in 1..Len(rest) : rest[i] \notin LineTerminators

\* required.match(/^(>=|<=|>|<|=)(.+)$/): the first alternative, in order,
\* after which (.+)$ matches; Null when there is none
OperatorMatch(s) ==
    LET ok == {i \in 1..Len(OperatorAlternatives) :
                  /\ StartsWith(s, OperatorAlternatives[i])
                  /\ MatchesDotPlus(Substring(s, Len(OperatorAlternatives[i])))}
    IN  IF ok = {} THEN Null
        ELSE LET i == CHOOSE j \in ok : \A k \in ok : j <= k
             IN  [operator |-> OperatorAlternatives[i],
                  targetVersion |-> Substring(s, Len(OperatorAlternatives[i]))]

\* parseVersion: three component strings, a missing or empty one is "0"
parseVersion(version) ==
    LET parts == Split(StripV(version), ".")
    IN  [major |-> PartOrZero(parts, 0),
         minor |-> PartOrZero(parts, 1),
         patch |-> PartOrZero(parts, 2)]

\* compareVersions: a number, NaN included
compareVersions(v1, v2) ==
    LET major1 == parseInt(v1.major)
        major2 == parseInt(v2.major)
        minor1 == parseInt(v1.minor)
        minor2 == parseInt(v2.minor)
        patch1 == parseInt(v1.patch)
        patch2 == parseInt(v2.patch)
    IN  IF NumStrictNe(major1, major2) THEN NumSub(major1, major2)
        ELSE IF NumStrictNe(minor1, minor2) THEN NumSub(minor1, minor2)
        ELSE NumSub(patch1, patch2)

\* the switch of compareVersionWithOperator
ApplyOperator(operator, comparison) ==
    CASE operator = <<">", "=">> -> NumGe0(comparison)
      [] operator = <<"<", "=">> -> NumLe0(comparison)
      [] operator = <<">">> -> NumGt0(comparison)
      [] operator = <<"<">> -> NumLt0(comparison)
      [] operator = <<"=">> -> NumEq0(comparison)
      [] OTHER -> FALSE

compareVersionWithOperator(cur, req) ==
    LET operatorMatch == OperatorMatch(req)
    IN  IF operatorMatch = Null THEN FALSE
        ELSE ApplyOperator(operatorMatch.operator,
                 compareVersions(parseVersion(cur),
                                 parseVersion(operatorMatch.targetVersion)))

\* matchSemverRange, the "^" branch
matchCaret(cur, range) ==
    LET currentParsed == parseVersion(cur)
        targetParsed == parseVersion(Substring(range, 1))
    IN  /\ currentParsed.major = targetParsed.major
        /\ NumGe0(compareVersions(currentParsed, targetParsed))

\* matchSemverRange, the "~" branch: `>=` on the two patch strings
matchTilde(cur, range) ==
    LET currentParsed == parseVersion(cur)
        targetParsed == parseVersion(Substring(range, 1))
    IN  /\ currentParsed.major = targetParsed.major
        /\ currentParsed.minor = targetParsed.minor
        /\ StrGe(currentParsed.patch, targetParsed.patch)

matchSemverRange(cur, range) ==
    IF StartsWith(range, <<"^">>) THEN matchCaret(cur, range)
    ELSE IF StartsWith(range, <<"~">>) THEN matchTilde(cur, range)
    ELSE FALSE

\* mutant of isPartialVersionMatch: components the spec does not give are
\* compared as "0"
isPartialVersionMatchZeroFilled(fullVersion, partialVersion) ==
    LET fullParts == parseVersion(fullVersion)
        partialParts == Split(partialVersion, ".")
    IN  /\ fullParts.major = PartOrZero(partialParts, 0)
        /\ fullParts.minor = PartOrZero(partialParts, 1)
        /\ fullParts.patch = PartOrZero(partialParts, 2)

isPartialVersionMatch(fullVersion, partialVersion) ==
    LET fullParts == parseVersion(fullVersion)
        partialParts == Split(partialVersion, ".")
        normalizedPartial == [major |-> PartOrZero(partialParts, 0),
                              minor |-> PartOrZero(partialParts, 1),
                              patch |-> PartOrZero(partialParts, 2)]
    IN  IF Len(partialParts) = 1 THEN fullParts.major = normalizedPartial.major
        ELSE IF Len(partialParts) = 2
        THEN /\ fullParts.major = normalizedPartial.major
             /\ fullParts.minor = normalizedPartial.minor
        ELSE /\ fullParts.major = normalizedPartial.major
             /\ fullParts.minor = normalizedPartial.minor
             /\ fullParts.patch = normalizedPartial.patch

\* mutant of MatchOnCurrent: the target is reported without a match too
MatchOnCurrentAlways(matches, normalizeCurrent) ==
    [matches |-> matches, targetVersion |-> normalizeCurrent]

\* { matches, targetVersion: matches ? normalizeCurrent : undefined }
MatchOnCurrent(matches, normalizeCurrent) ==
    IF matches THEN [matches |-> TRUE, targetVersion |-> normalizeCurrent]
    ELSE [matches |-> FALSE]

\* mutant of MatchOnRequired: a pin of fewer than three parts is left to the
\* manager and reported as matching
MatchOnRequiredAlways(matches, normalizeRequired) ==
    [matches |-> TRUE, targetVersion |-> normalizeRequired]

\* the partial-pin result: { matches, targetVersion: normalizeRequired }
MatchOnRequired(matches, normalizeRequired) ==
    [matches |-> matches, targetVersion |-> normalizeRequired]

\* the producer isVersionMatch hands to cacheManager.cached
VersionMatchProducer(cur, req) ==
    LET normalizeCurrent == StripV(cur)
        normalizeRequired == StripV(req)
    IN  IF normalizeCurrent = normalizeRequired
        THEN [matches |-> TRUE, targetVersion |-> normalizeCurrent]
        ELSE IF hasComparisonOperator(normalizeRequired)
        THEN MatchOnCurrent(
                 compareVersionWithOperator(normalizeCurrent, normalizeRequired),
                 normalizeCurrent)
        ELSE IF \/ StartsWith(normalizeRequired, <<"^">>)
                \/ StartsWith(normalizeRequired, <<"~">>)
        THEN MatchOnCurrent(
                 matchSemverRange(normalizeCurrent, normalizeRequired),
                 normalizeCurrent)
        ELSE IF Len(Split(normalizeRequired, ".")) < 3
        THEN MatchOnRequired(
                 isPartialVersionMatch(normalizeCurrent, normalizeRequired),
                 normalizeRequired)
        ELSE [matches |-> FALSE]

\* `version_match_${current}_${required}`
VersionMatchKey(cur, req) == <<"version_match_">> \o cur \o <<"_">> \o req

\* the TTL isVersionMatch passes to cached
VersionMatchTTL == 2 * 60 * 1000

(***************************************************************************)
(* The clock                                                               *)
(***************************************************************************)
\* amounts by which Date.now() advances between two steps: within every
\* TTL, and past the longest one
TickSteps == {20 * 1000, 5 * 60 * 1000 + 1}

Tick ==
    /\ ticks < MaxTicks
    /\ \E d \in TickSteps : now' = now + d
    /\ ticks' = ticks + 1
    /\ UNCHANGED caches

(***************************************************************************)
(* Inputs of isVersionMatch                                                *)
(***************************************************************************)
RECURSIVE Join(_)
\* parts.join(".")
Join(parts) ==
    IF parts = <<>> THEN <<>>
    ELSE IF Len(parts) = 1 THEN parts[1]
    ELSE parts[1] \o <<".">> \o Join(Tail(parts))

\* the dotted version strings with the given numbers of components
VersionStrings(components, lengths) ==
    {Join(p) : p \in UNION {[1..n -> components] : n \in lengths}}

CurrentComponents == {<<"9">>, <<"1", "0">>}

RequiredComponents == {<<"9">>, <<"1", "0">>, <<"x">>}

RequiredPrefixes ==
    {<<>>, <<"v">>, <<">", "=">>, <<"<", "=">>, <<">">>, <<"<">>, <<"=">>,
     <<"^">>, <<"~">>}

AliasTokens ==
    {<<"l", "t", "s">>, <<"s", "t", "a", "b", "l", "e">>,
     <<"l", "a", "t", "e", "s", "t">>}

\* what `node --version` and the managers report: "v9.10.9", "9.10", ...
CurrentInputs ==
    {p \o v : p \in {<<>>, <<"v">>},
              v \in VersionStrings(CurrentComponents, 1..MaxParts)}

\* what the project's configuration asks for
RequiredInputs ==
    {p \o v : p \in RequiredPrefixes,
              v \in VersionStrings(RequiredComponents, 1..MaxParts)}
    \cup AliasTokens

(***************************************************************************)
(* isVersionMatch as a process                                             *)
(***************************************************************************)
MatchInit ==
    /\ caches = EmptyCaches
    /\ now = 0
    /\ ticks = 0
    /\ current \in CurrentInputs
    /\ required \in RequiredInputs
    /\ matchResult = Null
    /\ matchCalls = 0
    /\ producerRuns = 0
    /\ platform = "unix"
    /\ detectRuns = <<>>
    /\ files = <<>>
    /\ writes = 0
    /\ configRuns = <<>>
    /\ cacheCalls = <<>>
    /\ lastSet = <<>>
    /\ lastGet = Null
    /\ cacheOps = 0
    /\ commands = <<>>
    /\ CallersIdle

\* one call isVersionMatch(current, required): read-through the cache
IsVersionMatch ==
    LET key == VersionMatchKey(current, required)
        produced == VersionMatchProducer(current, required)
    IN  /\ matchCalls < MaxMatchCalls
        /\ matchCalls' = matchCalls + 1
        /\ matchResult' = CachedValue(caches, NS_NODE_VERSIONS, key, produced, now)
        /\ producerRuns' = IF CachedMisses(caches, NS_NODE_VERSIONS, key, now)
                           THEN producerRuns + 1 ELSE producerRuns
        /\ caches' = CacheAfterCached(caches, NS_NODE_VERSIONS, key, produced,
                                      VersionMatchTTL, now)
        /\ UNCHANGED <<now, ticks, current, required>>
        /\ UNCHANGED <<detectVars, configVars, clientVars,
                 commandVars, callerVars>>

MatchTick == Tick /\ UNCHANGED <<matchVars, detectVars, configVars, clientVars,
                 commandVars, callerVars>>

MatchNext == IsVersionMatch \/ MatchTick

SpecMatch == MatchInit /\ [][MatchNext]_vars

(***************************************************************************)
(* EnvironmentDetector                                                     *)
(***************************************************************************)
NS_ENVIRONMENT_DETECTION == "env_detection"

NS_MANAGER_DETECTION == "manager_detection"

\* mutant of cacheExpiry: results are kept for ten seconds
cacheExpiryShort == 10 * 1000

\* EnvironmentDetector.cacheExpiry
cacheExpiry == 5 * 60 * 1000

AllManagersKey == <<"all_managers">>

\* `nvm_${platformType}`
NvmKey(platformType) == <<"nvm_", platformType>>

NManagerKey == <<"n_manager">>

\* how an external command ends: exit code 0, another exit code (or the
\* child's error event), or an exception raised while it is started
CommandOutcomes == {"success", "failure", "throws"}

\* ManagerDetectionResult of a probe that found the tool
AvailableResult(type, path) ==
    [type |-> type, available |-> TRUE, version |-> "stdout", path |-> path]

\* the same, when the path lookup found nothing
AvailableResultNoPath(type) ==
    [type |-> type, available |-> TRUE, version |-> "stdout"]

\* ManagerDetectionResult of a probe that did not find it
UnavailableResult(type, error) ==
    [type |-> type, available |-> FALSE, error |-> error]

\* a cached list of descriptors
ListValue(list) == [list |-> list]

\* a detectAllManagers invocation that has not started
IdleRun ==
    [pc |-> "idle", results |-> <<>>, nvmResult |-> Null, nResult |-> Null,
     returned |-> Null, log |-> <<>>]

\* mutant of PushResult: the descriptor is put in front
PushResultFront(results, result) == <<result>> \o results

\* results.push(result)
PushResult(results, result) == Append(results, result)

\* mutant of ShortCircuits: the secondary tool is probed in every run
ShortCircuitsNever(nvmResult) == FALSE

\* if (nvmResult.available): return without probing another manager
ShortCircuits(nvmResult) == nvmResult.available

\* mutant of ReturnResults: the list is returned and not stored
ReturnResultsUncached(c, t, run) ==
    [caches |-> c,
     run |-> [run EXCEPT !.pc = "done", !.returned = ListValue(run.results)]]

\* cacheManager.set(ENVIRONMENT_DETECTION, "all_managers", results) and
\* return results
ReturnResults(c, t, run) ==
    [caches |-> CacheSet(c, NS_ENVIRONMENT_DETECTION, AllManagersKey,
                         ListValue(run.results), cacheExpiry, t),
     run |-> [run EXCEPT !.pc = "done", !.returned = ListValue(run.results)]]

\* mutant of AfterDetectN: the list is replaced by the n descriptor
AfterDetectNAlone(c, t, run, nResult) ==
    ReturnResults(c, t,
        [run EXCEPT !.nResult = nResult,
                    !.results = <<nResult>>,
                    !.log = Append(run.log, "detectN returned")])

\* detectAllManagers from the point detectN() has resolved to nResult
AfterDetectN(c, t, run, nResult) ==
    ReturnResults(c, t,
        [run EXCEPT !.nResult = nResult,
                    !.results = PushResult(run.results, nResult),
                    !.log = Append(run.log, "detectN returned")])

\* detectN's cached(): the producer has returned nResult
AfterNProducer(c, t, run, nResult) ==
    AfterDetectN(
        CacheSet(c, NS_MANAGER_DETECTION, NManagerKey, nResult, cacheExpiry, t),
        t, run, nResult)

\* detectAllManagers calls detectN(): served from the per-tool entry, or the
\* producer starts `n --version`
CallDetectN(c, t, run) ==
    LET hit == CacheGet(c, NS_MANAGER_DETECTION, NManagerKey, t)
        c1 == CacheAfterGet(c, NS_MANAGER_DETECTION, NManagerKey, t)
        called == [run EXCEPT !.log = Append(run.log, "detectN called")]
    IN  IF hit # Null THEN AfterDetectN(c1, t, called, hit)
        ELSE [caches |-> c1,
              run |-> [called EXCEPT !.pc = "n --version",
                                     !.log = Append(called.log, "spawn n")]]

\* detectAllManagers from the point detectNVM() has resolved to nvmResult
AfterDetectNVM(c, t, run, nvmResult) ==
    LET pushed == [run EXCEPT !.nvmResult = nvmResult,
                              !.results = PushResult(run.results, nvmResult),
                              !.log = Append(run.log, "detectNVM returned")]
    IN  IF ShortCircuits(nvmResult) THEN ReturnResults(c, t, pushed)
        ELSE CallDetectN(c, t, pushed)

\* detectNVM's cached(): the producer has returned nvmResult
AfterNVMProducer(c, t, run, nvmResult) ==
    AfterDetectNVM(
        CacheSet(c, NS_MANAGER_DETECTION, NvmKey(platform), nvmResult,
                 cacheExpiry, t),
        t, run, nvmResult)

\* detectAllManagers calls detectNVM(): served from the per-tool entry, or
\* the producer starts `nvm --version` (`nvm version` on Windows)
CallDetectNVM(c, t, run) ==
    LET hit == CacheGet(c, NS_MANAGER_DETECTION, NvmKey(platform), t)
        c1 == CacheAfterGet(c, NS_MANAGER_DETECTION, NvmKey(platform), t)
        called == [run EXCEPT !.log = Append(run.log, "detectNVM called")]
    IN  IF hit # Null THEN AfterDetectNVM(c1, t, called, hit)
        ELSE [caches |-> c1,
              run |-> [called EXCEPT !.pc = "nvm --version",
                                     !.log = Append(called.log, "spawn nvm")]]

\* detectAllManagers up to its first suspension
BeginDetectAllManagers(c, t) ==
    LET cached == CacheGet(c, NS_ENVIRONMENT_DETECTION, AllManagersKey, t)
        c1 == CacheAfterGet(c, NS_ENVIRONMENT_DETECTION, AllManagersKey, t)
    IN  IF cached # Null
        THEN [caches |-> c1,
              run |-> [IdleRun EXCEPT !.pc = "done", !.returned = cached]]
        ELSE CallDetectNVM(c1, t, IdleRun)

DetectRunIds == 1..MaxDetectRuns

IsAvailable(m) == m.available

\* list.find((m) => m.type === type), Null for undefined
FindType(list, type) ==
    IF \A i \in DOMAIN list : list[i].type # type THEN Null
    ELSE list[CHOOSE i \in DOMAIN list :
                  /\ list[i].type = type
                  /\ \A j \in DOMAIN list : list[j].type = type => i <= j]

\* mutant of getPreferredManager: the first descriptor of the list is taken
getPreferredManagerFirst(managers) ==
    IF managers = <<>> THEN Null ELSE managers[1]

\* EnvironmentDetector.getPreferredManager from the point detectAllManagers
\* has resolved to `managers`
getPreferredManager(managers) ==
    LET availableManagers == SelectSeq(managers, IsAvailable)
    IN  IF Len(availableManagers) = 0 THEN Null
        ELSE IF Len(availableManagers) = 1 THEN availableManagers[1]
        ELSE IF FindType(availableManagers, "nvm") # Null
        THEN FindType(availableManagers, "nvm")
        ELSE availableManagers[1]

\* EnvironmentDetector.isManagerAvailable from the point detectAllManagers
\* has resolved to `managers`: manager?.available || false
isManagerAvailable(type, managers) ==
    IF FindType(managers, type) = Null THEN FALSE
    ELSE FindType(managers, type).available

\* the call of a caller of detectAllManagers: pending until the run returns
Query(method, type) ==
    [method |-> method, type |-> type, pending |-> TRUE, value |-> Null]

\* the continuation of the caller once its run has returned
Resume(query, run) ==
    IF query = Null \/ run.pc # "done" THEN query
    ELSE [query EXCEPT
             !.pending = FALSE,
             !.value = IF query.method = "getPreferredManager"
                       THEN getPreferredManager(run.returned.list)
                       ELSE isManagerAvailable(query.type, run.returned.list)]

\* the effect of one step of run r, made for the caller `query` (Null when
\* detectAllManagers was called for itself)
DetectStepFor(r, next, query) ==
    /\ caches' = next.caches
    /\ detectRuns' = [detectRuns EXCEPT ![r] = next.run]
    /\ queries' = IF r \in DOMAIN queries
                  THEN [queries EXCEPT ![r] = Resume(query, next.run)]
                  ELSE queries
    /\ UNCHANGED <<now, ticks, platform, hasConfig, lastCall, terminalVars>>
    /\ UNCHANGED <<matchVars, configVars, clientVars, commandVars>>

\* the effect of one step of run r
DetectStep(r, next) ==
    DetectStepFor(r, next, IF r \in DOMAIN queries THEN queries[r] ELSE Null)

\* a caller invokes detectAllManagers()
DetectAllManagers(r) ==
    /\ detectRuns[r].pc = "idle"
    /\ \A q \in DetectRunIds : q < r => detectRuns[q].pc # "idle"
    /\ DetectStep(r, BeginDetectAllManagers(caches, now))

\* the nvm version command of detectNVM ends
NvmVersionCommandEnds(r) ==
    /\ detectRuns[r].pc = "nvm --version"
    /\ \E outcome \in CommandOutcomes :
          LET run == detectRuns[r]
          IN  CASE outcome = "success" ->
                     DetectStep(r, AfterNVMProducer(caches, now, run,
                                       AvailableResult("nvm", "nvmDir")))
                [] outcome = "throws" ->
                     DetectStep(r, AfterNVMProducer(caches, now, run,
                                       UnavailableResult("nvm", "error.message")))
                [] outcome = "failure" /\ platform = "windows" ->
                     DetectStep(r, AfterNVMProducer(caches, now, run,
                                       UnavailableResult("nvm",
                                           "nvm-windows not found or not properly configured")))
                [] outcome = "failure" /\ platform = "unix" ->
                     DetectStep(r,
                         [caches |-> caches,
                          run |-> [run EXCEPT !.pc = "source nvm.sh",
                                       !.log = Append(run.log, "spawn shell")]])

\* the `source nvm.sh && nvm --version` fallback of detectNVM ends
NvmSourceCommandEnds(r) ==
    /\ detectRuns[r].pc = "source nvm.sh"
    /\ \E outcome \in CommandOutcomes :
          LET run == detectRuns[r]
          IN  CASE outcome = "success" ->
                     DetectStep(r, AfterNVMProducer(caches, now, run,
                                       AvailableResult("nvm", "nvmDir")))
                [] outcome = "throws" ->
                     DetectStep(r, AfterNVMProducer(caches, now, run,
                                       UnavailableResult("nvm", "error.message")))
                [] outcome = "failure" ->
                     DetectStep(r, AfterNVMProducer(caches, now, run,
                                       UnavailableResult("nvm",
                                           "NVM not found or not properly configured")))

\* the `n --version` command of detectN ends
NVersionCommandEnds(r) ==
    /\ detectRuns[r].pc = "n --version"
    /\ \E outcome \in CommandOutcomes :
          LET run == detectRuns[r]
          IN  CASE outcome = "success" ->
                     DetectStep(r,
                         [caches |-> caches,
                          run |-> [run EXCEPT !.pc = "which n",
                                       !.log = Append(run.log, "spawn which")]])
                [] outcome = "throws" ->
                     DetectStep(r, AfterNProducer(caches, now, run,
                                       UnavailableResult("n", "error.message")))
                [] outcome = "failure" ->
                     DetectStep(r, AfterNProducer(caches, now, run,
                                       UnavailableResult("n",
                                           "N version manager not found")))

\* the which / where command of detectN ends; result.available is already
\* true, an exception only adds result.error
NWhichCommandEnds(r) ==
    /\ detectRuns[r].pc = "which n"
    /\ \E outcome \in CommandOutcomes :
          LET run == detectRuns[r]
          IN  CASE outcome = "success" ->
                     DetectStep(r, AfterNProducer(caches, now, run,
                                       AvailableResult("n", "stdout")))
                [] outcome = "failure" ->
                     DetectStep(r, AfterNProducer(caches, now, run,
                                       AvailableResultNoPath("n")))
                [] outcome = "throws" ->
                     DetectStep(r, AfterNProducer(caches, now, run,
                                       [type |-> "n", available |-> TRUE,
                                        version |-> "stdout",
                                        error |-> "error.message"]))

DetectTick == Tick /\ UNCHANGED <<matchVars, detectVars, configVars, clientVars,
                 commandVars, callerVars>>

DetectInit ==
    /\ caches = EmptyCaches
    /\ now = 0
    /\ ticks = 0
    /\ platform \in {"unix", "windows"}
    /\ detectRuns = [r \in DetectRunIds |-> IdleRun]
    /\ current = <<>>
    /\ required = <<>>
    /\ matchResult = Null
    /\ matchCalls = 0
    /\ producerRuns = 0
    /\ files = <<>>
    /\ writes = 0
    /\ configRuns = <<>>
    /\ cacheCalls = <<>>
    /\ lastSet = <<>>
    /\ lastGet = Null
    /\ cacheOps = 0
    /\ commands = <<>>
    /\ CallersIdle

DetectNext ==
    \/ \E r \in DetectRunIds : DetectAllManagers(r)
    \/ \E r \in DetectRunIds : NvmVersionCommandEnds(r)
    \/ \E r \in DetectRunIds : NvmSourceCommandEnds(r)
    \/ \E r \in DetectRunIds : NVersionCommandEnds(r)
    \/ \E r \in DetectRunIds : NWhichCommandEnds(r)
    \/ DetectTick

SpecDetect == DetectInit /\ [][DetectNext]_vars

\* the positions at which a run waits for a child process
CommandPositions == {"nvm --version", "source nvm.sh", "n --version", "which n"}

\* the child a run waits for never exits and emits neither close nor error:
\* executeCommand and executeShellCommand set no timer, so no callback of the
\* run is left to be called
ChildNeverExits(r) ==
    /\ detectRuns[r].pc \in CommandPositions
    /\ DetectStep(r,
           [caches |-> caches,
            run |-> [detectRuns[r] EXCEPT
                        !.pc = "child never exits",
                        !.log = Append(detectRuns[r].log, "child never exits")]])

DetectLiveNext ==
    \/ DetectNext
    \/ \E r \in DetectRunIds : ChildNeverExits(r)

\* every child that does exit has its close or error event delivered, and a
\* caller that is about to call does call
DetectFairness ==
    \A r \in DetectRunIds :
        /\ WF_vars(DetectAllManagers(r))
        /\ WF_vars(NvmVersionCommandEnds(r))
        /\ WF_vars(NvmSourceCommandEnds(r))
        /\ WF_vars(NVersionCommandEnds(r))
        /\ WF_vars(NWhichCommandEnds(r))

SpecDetectLive == DetectInit /\ [][DetectLiveNext]_vars /\ DetectFairness


(***************************************************************************)
(* ConfigReaderService                                                     *)
(***************************************************************************)
NS_CONFIG_FILES == "config_files"

RECURSIVE TrimEnd(_)
TrimEnd(s) ==
    IF s # <<>> /\ s[Len(s)] \in WhiteSpace
    THEN TrimEnd(SubSeq(s, 1, Len(s) - 1)) ELSE s

\* s.trim()
Trim(s) == TrimEnd(SkipWhiteSpace(s))

\* s.includes(sub)
Includes(s, sub) ==
    \E i \in 1..(Len(s) - Len(sub) + 1) : SubSeq(s, i, i + Len(sub) - 1) = sub

\* the end of the longest run of digits of s that starts at position i
\* (i - 1 when s[i] is no digit)
RECURSIVE DigitRunEnd(_, _)
DigitRunEnd(s, i) ==
    IF i <= Len(s) /\ s[i] \in Digits THEN DigitRunEnd(s, i + 1) ELSE i - 1

\* /([0-9]+\.[0-9]+\.[0-9]+)/ matched at position i of s: the end of the
\* match, 0 when it does not match there
TripleMatchEnd(s, i) ==
    LET e1 == DigitRunEnd(s, i)
        e2 == DigitRunEnd(s, e1 + 2)
        e3 == DigitRunEnd(s, e2 + 2)
    IN  IF /\ e1 >= i
           /\ e1 + 1 <= Len(s) /\ s[e1 + 1] = "."
           /\ e2 >= e1 + 2
           /\ e2 + 1 <= Len(s) /\ s[e2 + 1] = "."
           /\ e3 >= e2 + 2
        THEN e3 ELSE 0

\* normalized.match(/([0-9]+\.[0-9]+\.[0-9]+)/): the leftmost match, Null
\* when there is none
TripleMatch(s) ==
    LET starts == {i \in 1..Len(s) : TripleMatchEnd(s, i) # 0}
    IN  IF starts = {} THEN Null
        ELSE LET i == CHOOSE j \in starts : \A k \in starts : j <= k
             IN  [str |-> SubSeq(s, i, TripleMatchEnd(s, i))]

\* ConfigReaderService.normalizeVersion
normalizeVersion(version) ==
    LET normalized == StripV(version)
    IN  IF \/ Includes(normalized, <<">", "=">>)
           \/ Includes(normalized, <<"^">>)
           \/ Includes(normalized, <<"~">>)
        THEN IF TripleMatch(normalized) # Null
             THEN TripleMatch(normalized).str ELSE normalized
        ELSE normalized

\* a string value held in the cache or returned by a reader
Str(s) == [str |-> s]

\* JavaScript truthiness of a reader's result: neither null nor ""
Truthy(v) == v # Null /\ v.str # <<>>

\* states of a file on disk
AbsentFile == [exists |-> FALSE]

TextFile(content) == [exists |-> TRUE, readable |-> TRUE, content |-> content]

\* a file that exists and whose readFileSync throws
UnreadableFile == [exists |-> TRUE, readable |-> FALSE]

\* mutant of ReadVersionFileProducer: the content is returned as read, blank
\* or not
ReadVersionFileProducerUntrimmed(file) ==
    IF ~file.exists THEN Null
    ELSE IF ~file.readable THEN Null
    ELSE Str(file.content)

\* the producer of readVersionFile
ReadVersionFileProducer(file) ==
    IF ~file.exists THEN Null
    ELSE IF ~file.readable THEN Null
    ELSE IF Trim(file.content) # <<>> THEN Str(Trim(file.content))
    ELSE Null

NodejsToken == <<"n", "o", "d", "e", "j", "s", " ">>

RECURSIVE LastNodejsLine(_)
\* mutant of FirstNodejsLine: the loop does not return at the first entry,
\* a later one replaces it
LastNodejsLine(lines) ==
    IF lines = <<>> THEN Null
    ELSE IF LastNodejsLine(Tail(lines)) # Null THEN LastNodejsLine(Tail(lines))
    ELSE IF StartsWith(Trim(Head(lines)), NodejsToken)
    THEN Str(Trim(Substring(Trim(Head(lines)), Len(NodejsToken))))
    ELSE Null

RECURSIVE FirstNodejsLine(_)
\* the for loop of readToolVersions over the lines of the file
FirstNodejsLine(lines) ==
    IF lines = <<>> THEN Null
    ELSE IF StartsWith(Trim(Head(lines)), NodejsToken)
    THEN Str(Trim(Substring(Trim(Head(lines)), Len(NodejsToken))))
    ELSE FirstNodejsLine(Tail(lines))

\* ConfigReaderService.readToolVersions (not cached)
readToolVersions(file) ==
    IF ~file.exists THEN Null
    ELSE IF ~file.readable THEN Null
    ELSE FirstNodejsLine(Split(file.content, "\n"))

\* package.json on disk: its text parses to an object whose engines.node
\* and volta.node are strings or missing (Null), or does not parse
JsonFile(enginesNode, voltaNode) ==
    [exists |-> TRUE, readable |-> TRUE, parses |-> TRUE,
     enginesNode |-> enginesNode, voltaNode |-> voltaNode]

MalformedJsonFile == [exists |-> TRUE, readable |-> TRUE, parses |-> FALSE]

\* the producer of readPackageJson
ReadPackageJsonProducer(file) ==
    IF ~file.exists THEN Null
    ELSE IF ~file.readable \/ ~file.parses THEN Null
    ELSE IF ~Truthy(file.enginesNode) /\ ~Truthy(file.voltaNode) THEN Null
    ELSE [engines |-> IF Truthy(file.enginesNode) THEN file.enginesNode ELSE Null,
          volta |-> IF Truthy(file.voltaNode) THEN file.voltaNode ELSE Null]

\* cache keys of the readers, for the one workspace root of the model
ProjectVersionKey == <<"project_version_", "root">>

FileKey(fileName) == <<"file_", "root/", fileName, "_", fileName>>

PackageJsonKey == <<"package_json_", "root/", "package.json">>

\* the TTLs the readers pass to cached
ProjectVersionTTL == 2 * 60 * 1000

VersionFileTTL == 60 * 1000

PackageJsonTTL == 30 * 1000

\* mutant of Checks: .node-version is consulted before .nvmrc
ChecksNodeVersionFirst == <<".node-version", ".nvmrc", ".tool-versions">>

\* the `checks` array of getProjectNodeVersion, in its order
Checks == <<".nvmrc", ".node-version", ".tool-versions">>

\* check.method() for a pin file: the value it resolves to
CheckMethodValue(c, t, fs, source) ==
    IF source = ".tool-versions" THEN readToolVersions(fs[source])
    ELSE CachedValue(c, NS_CONFIG_FILES, FileKey(source),
                     ReadVersionFileProducer(fs[source]), t)

\* check.method() for a pin file: the store it leaves
CheckMethodCaches(c, t, fs, source) ==
    IF source = ".tool-versions" THEN c
    ELSE CacheAfterCached(c, NS_CONFIG_FILES, FileKey(source),
                          ReadVersionFileProducer(fs[source]),
                          VersionFileTTL, t)

\* a getProjectNodeVersion invocation that has not started
IdleConfigRun ==
    [pc |-> "idle", check |-> 0, reads |-> <<>>, computed |-> FALSE,
     returned |-> Null]

\* the producer of getProjectNodeVersion returns `result`: cached() stores
\* it and the call resolves to it
ReturnConfig(c, t, run, result) ==
    [caches |-> CacheSet(c, NS_CONFIG_FILES, ProjectVersionKey, result,
                         ProjectVersionTTL, t),
     run |-> [run EXCEPT !.pc = "done", !.returned = result]]

\* { version: this.normalizeVersion(version), source }
ConfigResult(version, source) ==
    [version |-> normalizeVersion(version.str), source |-> source]

ConfigRunIds == 1..MaxConfigRuns

ConfigStep(r, next) ==
    /\ caches' = next.caches
    /\ configRuns' = [configRuns EXCEPT ![r] = next.run]
    /\ UNCHANGED <<now, ticks, files, writes>>
    /\ UNCHANGED <<matchVars, detectVars, clientVars,
                 commandVars, callerVars>>

\* a caller invokes getProjectNodeVersion(root): served from the aggregate
\* entry, or the producer starts
GetProjectNodeVersion(r) ==
    /\ configRuns[r].pc = "idle"
    /\ \A q \in ConfigRunIds : q < r => configRuns[q].pc # "idle"
    /\ LET hit == CacheGet(caches, NS_CONFIG_FILES, ProjectVersionKey, now)
           c1 == CacheAfterGet(caches, NS_CONFIG_FILES, ProjectVersionKey, now)
       IN  ConfigStep(r,
               IF hit # Null
               THEN [caches |-> c1,
                     run |-> [IdleConfigRun EXCEPT !.pc = "done",
                                                   !.returned = hit]]
               ELSE [caches |-> c1,
                     run |-> [IdleConfigRun EXCEPT !.pc = "checks",
                                                   !.check = 1,
                                                   !.computed = TRUE]])

\* one iteration of `for (const check of checks)`
CheckPinFile(r) ==
    /\ configRuns[r].pc = "checks"
    /\ LET run == configRuns[r]
           source == Checks[run.check]
           version == CheckMethodValue(caches, now, files, source)
           c1 == CheckMethodCaches(caches, now, files, source)
           read == [run EXCEPT
                       !.reads = Append(run.reads,
                                     [source |-> source, version |-> version])]
       IN  ConfigStep(r,
               IF Truthy(version)
               THEN ReturnConfig(c1, now, read, ConfigResult(version, source))
               ELSE IF run.check < Len(Checks)
               THEN [caches |-> c1, run |-> [read EXCEPT !.check = run.check + 1]]
               ELSE [caches |-> c1, run |-> [read EXCEPT !.pc = "package.json"]])

\* mutant of UsesVolta: volta.node is never used
UsesVoltaNever(volta) == FALSE

\* if (packageConfig.volta)
UsesVolta(volta) == Truthy(volta)

\* the package.json part of getProjectNodeVersion
CheckPackageJson(r) ==
    /\ configRuns[r].pc = "package.json"
    /\ LET run == configRuns[r]
           produced == ReadPackageJsonProducer(files["package.json"])
           packageConfig == CachedValue(caches, NS_CONFIG_FILES, PackageJsonKey,
                                        produced, now)
           c1 == CacheAfterCached(caches, NS_CONFIG_FILES, PackageJsonKey,
                                  produced, PackageJsonTTL, now)
           volta == IF packageConfig = Null THEN Null ELSE packageConfig.volta
           engines == IF packageConfig = Null THEN Null ELSE packageConfig.engines
           readVolta == Append(run.reads,
                            [source |-> "package.json (volta.node)",
                             version |-> volta])
           readBoth == Append(readVolta,
                           [source |-> "package.json (engines.node)",
                            version |-> engines])
       IN  ConfigStep(r,
               IF UsesVolta(volta)
               THEN ReturnConfig(c1, now, [run EXCEPT !.reads = readVolta],
                        ConfigResult(volta, "package.json (volta.node)"))
               ELSE IF Truthy(engines)
               THEN ReturnConfig(c1, now, [run EXCEPT !.reads = readBoth],
                        ConfigResult(engines, "package.json (engines.node)"))
               ELSE ReturnConfig(c1, now, [run EXCEPT !.reads = readBoth], Null))

\* what the pin files may hold
PinFileStates ==
    {AbsentFile, UnreadableFile, TextFile(<<" ", "\n">>), TextFile(<<"1", "6", "\n">>),
     TextFile(<<"v", "1", "8">>), TextFile(<<">", "=", "1", "8", ".", "0", ".", "0">>)}

ToolVersionsStates ==
    {AbsentFile, TextFile(<<"p", "y", "t", "h", "o", "n", " ", "3">>), TextFile(<<"p", "y", "t", "h", "o", "n", " ", "3", "\n", "n", "o", "d", "e", "j", "s", " ", "2", "0", "\n", "n", "o", "d", "e", "j", "s", " ", "9">>)}

PackageJsonStates ==
    {AbsentFile, MalformedJsonFile, JsonFile(Null, Null),
     JsonFile(Str(<<">", "=", "1", "8">>), Null),
     JsonFile(Str(<<">", "=", "1", "8">>), Str(<<"1", "8", ".", "2", ".", "1">>))}

FileStates(name) ==
    CASE name = ".nvmrc" -> PinFileStates
      [] name = ".node-version" -> {AbsentFile, TextFile(<<"v", "1", "8">>)}
      [] name = ".tool-versions" -> ToolVersionsStates
      [] name = "package.json" -> PackageJsonStates

ConfigFileNames == {".nvmrc", ".node-version", ".tool-versions", "package.json"}

\* an editor or another process changes one configuration file
WriteFile ==
    /\ writes < MaxWrites
    /\ \E name \in ConfigFileNames :
          \E state \in FileStates(name) :
              /\ state # files[name]
              /\ files' = [files EXCEPT ![name] = state]
    /\ writes' = writes + 1
    /\ UNCHANGED <<cacheVars, configRuns, matchVars, detectVars, clientVars,
                   commandVars, callerVars>>

ConfigTick == Tick /\ UNCHANGED <<matchVars, detectVars, configVars, clientVars,
                 commandVars, callerVars>>

ConfigInit ==
    /\ caches = EmptyCaches
    /\ now = 0
    /\ ticks = 0
    /\ \E a \in FileStates(".nvmrc"), b \in FileStates(".node-version"),
          c \in FileStates(".tool-versions"), d \in FileStates("package.json") :
          files = [n \in ConfigFileNames |->
                      CASE n = ".nvmrc" -> a [] n = ".node-version" -> b
                        [] n = ".tool-versions" -> c [] n = "package.json" -> d]
    /\ writes = 0
    /\ configRuns = [r \in ConfigRunIds |-> IdleConfigRun]
    /\ current = <<>>
    /\ required = <<>>
    /\ matchResult = Null
    /\ matchCalls = 0
    /\ producerRuns = 0
    /\ platform = "unix"
    /\ detectRuns = <<>>
    /\ cacheCalls = <<>>
    /\ lastSet = <<>>
    /\ lastGet = Null
    /\ cacheOps = 0
    /\ commands = <<>>
    /\ CallersIdle

ConfigNext ==
    \/ \E r \in ConfigRunIds : GetProjectNodeVersion(r)
    \/ \E r \in ConfigRunIds : CheckPinFile(r)
    \/ \E r \in ConfigRunIds : CheckPackageJson(r)
    \/ WriteFile
    \/ ConfigTick

SpecConfig == ConfigInit /\ [][ConfigNext]_vars


(***************************************************************************)
(* A workspace with one configuration source, and the callers of the       *)
(* reader: ProjectDetectorService.detectProjectVersion asks hasConfigFiles *)
(* and TerminalService.detectProjectVersionForWorkspace hands the resolved *)
(* version to isVersionMatch                                               *)
(***************************************************************************)
\* mutant of hasConfigFiles: package.json is not looked for
hasConfigFilesPinOnly(fs) ==
    \E file \in {".nvmrc", ".node-version", ".tool-versions"} : fs[file].exists

\* ConfigReaderService.hasConfigFiles: configFiles.some(fs.existsSync)
hasConfigFiles(fs) ==
    \E file \in {".nvmrc", ".node-version", ".tool-versions", "package.json"} :
        fs[file].exists

\* the markers a version spec may carry
OperatorMarkers ==
    {<<">", "=">>, <<"<", "=">>, <<">">>, <<"<">>, <<"=">>, <<"^">>, <<"~">>}

\* the versions a spec names: two triples and a major alone
VersionBodies == {<<"1", "8", ".", "0", ".", "0">>, <<"9", ".", "1", "0", ".", "9">>, <<"1", "8">>}

OperatorSpecs == {m \o b : m \in OperatorMarkers, b \in VersionBodies}

\* .tool-versions files besides the ones that hold an operator spec
ToolVersionsTexts ==
    {<<"p", "y", "t", "h", "o", "n", " ", "3">>, <<"p", "y", "t", "h", "o", "n", " ", "3", "\n", "n", "o", "d", "e", "j", "s", " ", "2", "0", "\n", "n", "o", "d", "e", "j", "s", " ", "9">>, <<" ", "n", "o", "d", "e", "j", "s", " ", "2", "0">>, <<"n", "o", "d", "e", "j", "s", " ", "\n", "n", "o", "d", "e", "j", "s", " ", "9">>, <<"n", "o", "d", "e", "j", "s", "\t", "2", "0">>}

\* what the one source of the workspace may hold
SourceStates(name) ==
    CASE name \in {".nvmrc", ".node-version"} ->
             {AbsentFile, UnreadableFile} \cup {TextFile(s) : s \in OperatorSpecs}
      [] name = ".tool-versions" ->
             {TextFile(NodejsToken \o s) : s \in OperatorSpecs}
             \cup {TextFile(t) : t \in ToolVersionsTexts}
      [] name = "package.json" ->
             {MalformedJsonFile, JsonFile(Null, Null)}
             \cup {JsonFile(Str(s), Null) : s \in OperatorSpecs}
             \cup {JsonFile(Null, Str(s)) : s \in OperatorSpecs}

\* what getCurrentNodeVersion reports
SourceCurrents == {<<"1", "8", ".", "0", ".", "0">>, <<"v", "2", "0", ".", "1", ".", "0">>}

\* a caller invokes hasConfigFiles(root)
HasConfigFiles ==
    /\ hasConfig' = [result |-> hasConfigFiles(files)]
    /\ UNCHANGED <<lastCall, queries, terminalVars>>
    /\ UNCHANGED <<cacheVars, matchVars, detectVars, configVars, clientVars,
                   commandVars>>

\* this.isVersionMatch(currentVersion, projectConfig.version) on what run r
\* resolved to
MatchProjectVersion(r) ==
    /\ configRuns[r].pc = "done"
    /\ configRuns[r].returned # Null
    /\ matchCalls < MaxMatchCalls
    /\ \E cur \in SourceCurrents :
          LET req == configRuns[r].returned.version
              key == VersionMatchKey(cur, req)
              produced == VersionMatchProducer(cur, req)
          IN  /\ current' = cur
              /\ required' = req
              /\ matchResult' = CachedValue(caches, NS_NODE_VERSIONS, key,
                                            produced, now)
              /\ producerRuns' =
                    IF CachedMisses(caches, NS_NODE_VERSIONS, key, now)
                    THEN producerRuns + 1 ELSE producerRuns
              /\ caches' = CacheAfterCached(caches, NS_NODE_VERSIONS, key,
                                            produced, VersionMatchTTL, now)
    /\ matchCalls' = matchCalls + 1
    /\ UNCHANGED <<now, ticks>>
    /\ UNCHANGED <<detectVars, configVars, clientVars, commandVars, callerVars>>

SourcesInit ==
    /\ caches = EmptyCaches
    /\ now = 0
    /\ ticks = 0
    /\ \E name \in ConfigFileNames :
          \E state \in SourceStates(name) :
              files = [n \in ConfigFileNames |->
                          IF n = name THEN state ELSE AbsentFile]
    /\ writes = 0
    /\ configRuns = [r \in ConfigRunIds |-> IdleConfigRun]
    /\ current = <<>>
    /\ required = <<>>
    /\ matchResult = Null
    /\ matchCalls = 0
    /\ producerRuns = 0
    /\ platform = "unix"
    /\ detectRuns = <<>>
    /\ cacheCalls = <<>>
    /\ lastSet = <<>>
    /\ lastGet = Null
    /\ cacheOps = 0
    /\ commands = <<>>
    /\ CallersIdle

SourcesNext ==
    \/ \E r \in ConfigRunIds : GetProjectNodeVersion(r)
    \/ \E r \in ConfigRunIds : CheckPinFile(r)
    \/ \E r \in ConfigRunIds : CheckPackageJson(r)
    \/ \E r \in ConfigRunIds : MatchProjectVersion(r)
    \/ HasConfigFiles

SpecSources == SourcesInit /\ [][SourcesNext]_vars


(***************************************************************************)
(* A client of CacheManager: direct set / get and concurrent cached()      *)
(***************************************************************************)
ClientNamespace == NS_CONFIG_FILES

\* the key readVersionFile uses for .nvmrc
ClientKeys == {FileKey(".nvmrc")}

\* values a caller stores and a producer resolves to, besides null
ClientValues == {Str(<<"1", "6">>), Str(<<"1", "8">>)}

\* the ttl argument, in milliseconds
ClientTTLs == {10, 20}

\* what the producer passed to cached() does when it is awaited
Producers == {"returns", "throws"}

\* amounts by which Date.now() advances between two steps of the client
ClientTickSteps == {10, 15}

\* a cached() invocation that has not started; ttl and producer are held
\* while the call is suspended at `await fn()`
IdleCacheCall ==
    [pc |-> "idle", key |-> <<>>, ttl |-> 0, producer |-> "returns",
     invoked |-> 0, returned |-> Null, rejected |-> FALSE]

CacheCallIds == 1..MaxCacheCalls

\* the entries of the client's namespace
Entries(c) == IF ClientNamespace \in DOMAIN c THEN c[ClientNamespace] ELSE <<>>

\* the record of a set(namespace, key, value, ttl) made at time t
RecordSet(sets, key, value, ttl, t) ==
    [k \in DOMAIN sets \cup {key} |->
        IF k = key THEN [value |-> value, ttl |-> ttl, at |-> t] ELSE sets[k]]

\* mutant of CacheAfterFailure: a failed producer leaves a null entry behind
CacheAfterFailureStored(c, ns, key, ttl, t) == CacheSet(c, ns, key, Null, ttl, t)

\* cached(): `await fn()` throws, this.set is not reached
CacheAfterFailure(c, ns, key, ttl, t) == c

\* a caller invokes set(namespace, key, value, ttl)
ClientSet ==
    /\ cacheOps < MaxCacheOps
    /\ \E key \in ClientKeys, value \in ClientValues, ttl \in ClientTTLs :
          /\ caches' = CacheSet(caches, ClientNamespace, key, value, ttl, now)
          /\ lastSet' = RecordSet(lastSet, key, value, ttl, now)
    /\ cacheOps' = cacheOps + 1
    /\ UNCHANGED <<now, ticks, cacheCalls, lastGet>>
    /\ UNCHANGED <<matchVars, detectVars, configVars, commandVars, callerVars>>

\* a caller invokes get(namespace, key)
ClientGet ==
    /\ cacheOps < MaxCacheOps
    /\ \E key \in ClientKeys :
          /\ lastGet' = [key |-> key, at |-> now, op |-> cacheOps + 1,
                         value |-> CacheGet(caches, ClientNamespace, key, now)]
          /\ caches' = CacheAfterGet(caches, ClientNamespace, key, now)
    /\ cacheOps' = cacheOps + 1
    /\ UNCHANGED <<now, ticks, cacheCalls, lastSet>>
    /\ UNCHANGED <<matchVars, detectVars, configVars, commandVars, callerVars>>

\* a caller invokes cached(namespace, key, fn, ttl): the lookup, up to the
\* return of the stored value or the suspension at `await fn()`
Cached(i) ==
    /\ cacheCalls[i].pc = "idle"
    /\ \A j \in CacheCallIds : j < i => cacheCalls[j].pc # "idle"
    /\ \E key \in ClientKeys, ttl \in ClientTTLs, producer \in Producers :
          LET cached == CacheGet(caches, ClientNamespace, key, now)
              call == [IdleCacheCall EXCEPT !.key = key, !.ttl = ttl,
                                            !.producer = producer]
          IN  /\ caches' = CacheAfterGet(caches, ClientNamespace, key, now)
              /\ cacheCalls' =
                    [cacheCalls EXCEPT ![i] =
                        IF cached # Null
                        THEN [IdleCacheCall EXCEPT !.pc = "done", !.key = key,
                                                   !.returned = cached]
                        ELSE [call EXCEPT !.pc = "producer", !.invoked = 1]]
    /\ UNCHANGED <<now, ticks, lastSet, lastGet, cacheOps>>
    /\ UNCHANGED <<matchVars, detectVars, configVars, commandVars, callerVars>>

\* the producer of call i resolves: this.set(namespace, key, result, ttl)
\* and return result
ProducerReturns(i) ==
    /\ cacheCalls[i].pc = "producer"
    /\ cacheCalls[i].producer = "returns"
    /\ \E result \in ClientValues \cup {Null} :
          LET call == cacheCalls[i]
          IN  /\ caches' = CacheSet(caches, ClientNamespace, call.key, result,
                                    call.ttl, now)
              /\ lastSet' = RecordSet(lastSet, call.key, result, call.ttl, now)
              /\ cacheCalls' =
                    [cacheCalls EXCEPT ![i] =
                        [IdleCacheCall EXCEPT !.pc = "done", !.key = call.key,
                                              !.invoked = 1,
                                              !.returned = result]]
    /\ UNCHANGED <<now, ticks, lastGet, cacheOps>>
    /\ UNCHANGED <<matchVars, detectVars, configVars, commandVars, callerVars>>

\* the producer of call i rejects: the rejection leaves cached() at the await
ProducerThrows(i) ==
    /\ cacheCalls[i].pc = "producer"
    /\ cacheCalls[i].producer = "throws"
    /\ caches' = CacheAfterFailure(caches, ClientNamespace, cacheCalls[i].key,
                                   cacheCalls[i].ttl, now)
    /\ cacheCalls' =
          [cacheCalls EXCEPT ![i] =
              [IdleCacheCall EXCEPT !.pc = "failed", !.key = cacheCalls[i].key,
                                    !.invoked = 1, !.rejected = TRUE]]
    /\ UNCHANGED <<now, ticks, lastSet, lastGet, cacheOps>>
    /\ UNCHANGED <<matchVars, detectVars, configVars, commandVars, callerVars>>

ClientTick ==
    /\ ticks < MaxTicks
    /\ \E d \in ClientTickSteps : now' = now + d
    /\ ticks' = ticks + 1
    /\ UNCHANGED <<caches, clientVars>>
    /\ UNCHANGED <<matchVars, detectVars, configVars, commandVars, callerVars>>

ClientInit ==
    /\ caches = EmptyCaches
    /\ now = 0
    /\ ticks = 0
    /\ cacheCalls = [i \in CacheCallIds |-> IdleCacheCall]
    /\ lastSet = <<>>
    /\ lastGet = Null
    /\ cacheOps = 0
    /\ current = <<>>
    /\ required = <<>>
    /\ matchResult = Null
    /\ matchCalls = 0
    /\ producerRuns = 0
    /\ platform = "unix"
    /\ detectRuns = <<>>
    /\ files = <<>>
    /\ writes = 0
    /\ configRuns = <<>>
    /\ commands = <<>>
    /\ CallersIdle

ClientNext ==
    \/ ClientSet
    \/ ClientGet
    \/ \E i \in CacheCallIds : Cached(i)
    \/ \E i \in CacheCallIds : ProducerReturns(i)
    \/ \E i \in CacheCallIds : ProducerThrows(i)
    \/ ClientTick

SpecCache == ClientInit /\ [][ClientNext]_vars


(***************************************************************************)
(* A client of CacheManager: set, delete and clear over two namespaces     *)
(***************************************************************************)
StoreNamespaces == {NS_NODE_VERSIONS, NS_CONFIG_FILES}

\* the key strings a caller passes; <<>> is the empty string
StoreKeys == {<<>>, <<"current_version">>}

\* the key argument of delete: a string, or Null when it is omitted
DeleteKeys == {Str(k) : k \in StoreKeys} \cup {Null}

StoreValues == {Str(<<"1", "6">>), Str(<<"1", "8">>)}

\* CacheManager.delete: the store it leaves; `if (!key)` holds for an
\* omitted key and for the empty string
CacheDelete(c, ns, key) ==
    IF ~Truthy(key) THEN [n \in DOMAIN c \ {ns} |-> c[n]]
    ELSE IF ns \in DOMAIN c
    THEN [c EXCEPT ![ns] = [k \in DOMAIN c[ns] \ {key.str} |-> c[ns][k]]]
    ELSE c

\* CacheManager.clear: this.caches.clear()
CacheClear(c) == EmptyCaches

StoreStep(call) ==
    /\ cacheOps < MaxStoreOps
    /\ cacheOps' = cacheOps + 1
    /\ lastCall' = call
    /\ UNCHANGED <<now, ticks, cacheCalls, lastSet, lastGet, hasConfig, queries,
                 terminalVars>>
    /\ UNCHANGED <<matchVars, detectVars, configVars, commandVars>>

\* a caller invokes set(namespace, key, value)
StoreSet ==
    \E ns \in StoreNamespaces, key \in StoreKeys, value \in StoreValues :
        /\ caches' = CacheSet(caches, ns, key, value, 0, now)
        /\ StoreStep([op |-> "set", namespace |-> ns, key |-> Str(key)])

\* a caller invokes delete(namespace) or delete(namespace, key)
StoreDelete ==
    \E ns \in StoreNamespaces, key \in DeleteKeys :
        /\ caches' = CacheDelete(caches, ns, key)
        /\ StoreStep([op |-> "delete", namespace |-> ns, key |-> key])

\* a caller invokes clear()
StoreClear ==
    /\ caches' = CacheClear(caches)
    /\ StoreStep([op |-> "clear", namespace |-> "", key |-> Null])

StoreInit ==
    /\ caches = EmptyCaches
    /\ now = 0
    /\ ticks = 0
    /\ cacheCalls = <<>>
    /\ lastSet = <<>>
    /\ lastGet = Null
    /\ cacheOps = 0
    /\ current = <<>>
    /\ required = <<>>
    /\ matchResult = Null
    /\ matchCalls = 0
    /\ producerRuns = 0
    /\ platform = "unix"
    /\ detectRuns = <<>>
    /\ files = <<>>
    /\ writes = 0
    /\ configRuns = <<>>
    /\ commands = <<>>
    /\ CallersIdle

StoreNext == StoreSet \/ StoreDelete \/ StoreClear

SpecStore == StoreInit /\ [][StoreNext]_vars


(***************************************************************************)
(* detectAllManagers when another client of the shared cacheManager        *)
(* deletes the aggregate entry                                             *)
(***************************************************************************)
\* a client invokes delete(ENVIRONMENT_DETECTION, "all_managers")
DeleteAllManagersEntry ==
    /\ CacheHasEntry(caches, NS_ENVIRONMENT_DETECTION, AllManagersKey)
    /\ caches' = CacheDelete(caches, NS_ENVIRONMENT_DETECTION,
                             Str(AllManagersKey))
    /\ UNCHANGED <<now, ticks, detectVars>>
    /\ UNCHANGED <<matchVars, configVars, clientVars, commandVars, callerVars>>

DetectSharedNext ==
    \/ \E r \in DetectRunIds : DetectAllManagers(r)
    \/ \E r \in DetectRunIds : NvmVersionCommandEnds(r)
    \/ \E r \in DetectRunIds : NvmSourceCommandEnds(r)
    \/ \E r \in DetectRunIds : NVersionCommandEnds(r)
    \/ \E r \in DetectRunIds : NWhichCommandEnds(r)
    \/ DeleteAllManagersEntry

SpecDetectShared == DetectInit /\ [][DetectSharedNext]_vars


(***************************************************************************)
(* detectAllManagers while the detection cache is evicted; `lastCall` is   *)
(* the last eviction and the runs that were in flight when it was made     *)
(***************************************************************************)
\* the detectAllManagers runs that have started and not returned
RunsInFlight == {r \in DetectRunIds : detectRuns[r].pc \notin {"idle", "done"}}

EvictionStep(op) ==
    /\ lastCall' = [op |-> op, inFlight |-> RunsInFlight]
    /\ UNCHANGED <<now, ticks, detectVars, hasConfig, queries, terminalVars>>
    /\ UNCHANGED <<matchVars, configVars, clientVars, commandVars>>

\* EnvironmentDetector.clearCache()
ClearCache ==
    /\ caches' = CacheDelete(CacheDelete(caches, NS_ENVIRONMENT_DETECTION, Null),
                             NS_MANAGER_DETECTION, Null)
    /\ EvictionStep("clearCache")

\* the cleanup function of the extension: cacheManager.clear()
DeactivateClear ==
    /\ caches' = CacheClear(caches)
    /\ EvictionStep("clear")

DetectEvictedNext ==
    \/ \E r \in DetectRunIds : DetectAllManagers(r)
    \/ \E r \in DetectRunIds : NvmVersionCommandEnds(r)
    \/ \E r \in DetectRunIds : NvmSourceCommandEnds(r)
    \/ \E r \in DetectRunIds : NVersionCommandEnds(r)
    \/ \E r \in DetectRunIds : NWhichCommandEnds(r)
    \/ ClearCache
    \/ DeactivateClear

SpecDetectEvicted == DetectInit /\ [][DetectEvictedNext]_vars


(***************************************************************************)
(* The callers of detectAllManagers: getPreferredManager and               *)
(* isManagerAvailable                                                      *)
(***************************************************************************)
\* NodeManagerType
ManagerTypes == {"nvm", "n", "unknown"}

\* a caller invokes getPreferredManager()
GetPreferredManager(r) ==
    /\ detectRuns[r].pc = "idle"
    /\ \A q \in DetectRunIds : q < r => detectRuns[q].pc # "idle"
    /\ DetectStepFor(r, BeginDetectAllManagers(caches, now),
                     Query("getPreferredManager", ""))

\* a caller invokes isManagerAvailable(type); for "unknown" it returns
\* before detectAllManagers is called
IsManagerAvailable(r) ==
    /\ detectRuns[r].pc = "idle"
    /\ \A q \in DetectRunIds : q < r => detectRuns[q].pc # "idle"
    /\ \E type \in ManagerTypes :
          IF type = "unknown"
          THEN /\ detectRuns' = [detectRuns EXCEPT
                                    ![r] = [IdleRun EXCEPT !.pc = "not called"]]
               /\ queries' = [queries EXCEPT
                                 ![r] = [Query("isManagerAvailable", type)
                                            EXCEPT !.pending = FALSE,
                                                   !.value = FALSE]]
               /\ UNCHANGED <<cacheVars, platform, hasConfig, lastCall,
                            terminalVars>>
               /\ UNCHANGED <<matchVars, configVars, clientVars, commandVars>>
          ELSE DetectStepFor(r, BeginDetectAllManagers(caches, now),
                             Query("isManagerAvailable", type))

QueryInit ==
    /\ caches = EmptyCaches
    /\ now = 0
    /\ ticks = 0
    /\ platform \in {"unix", "windows"}
    /\ detectRuns = [r \in DetectRunIds |-> IdleRun]
    /\ queries = [r \in DetectRunIds |-> Null]
    /\ hasConfig = Null
    /\ lastCall = Null
    /\ TerminalsIdle
    /\ current = <<>>
    /\ required = <<>>
    /\ matchResult = Null
    /\ matchCalls = 0
    /\ producerRuns = 0
    /\ files = <<>>
    /\ writes = 0
    /\ configRuns = <<>>
    /\ cacheCalls = <<>>
    /\ lastSet = <<>>
    /\ lastGet = Null
    /\ cacheOps = 0
    /\ commands = <<>>

QueryNext ==
    \/ \E r \in DetectRunIds : GetPreferredManager(r)
    \/ \E r \in DetectRunIds : IsManagerAvailable(r)
    \/ \E r \in DetectRunIds : NvmVersionCommandEnds(r)
    \/ \E r \in DetectRunIds : NvmSourceCommandEnds(r)
    \/ \E r \in DetectRunIds : NVersionCommandEnds(r)
    \/ \E r \in DetectRunIds : NWhichCommandEnds(r)

SpecQuery == QueryInit /\ [][QueryNext]_vars

(***************************************************************************)
(* TerminalService and the activation of the extension                    *)
(***************************************************************************)
NS_TERMINAL_PROCESSING == "terminal_processing"

TerminalIds == 1..MaxTerminals

\* `workspace_version_${workspaceRoot}`
WorkspaceVersionKey == <<"workspace_version_", "root">>

CurrentVersionKey == <<"current_version">>

\* the TTLs detectProjectVersionForWorkspace and getCurrentNodeVersion pass
\* to cached
WorkspaceVersionTTL == 30 * 1000

CurrentVersionTTL == 10 * 1000

\* the element of a one-element set: The({e(x) : x \in {v}}) is e(v) with v
\* computed once
The(S) == CHOOSE x \in S : TRUE

\* the package.json part of getProjectNodeVersion: the store left and the
\* producer's result
CheckManifest(c, t, fs) ==
    The({[caches |-> CacheAfterCached(c, NS_CONFIG_FILES, PackageJsonKey,
                                      produced, PackageJsonTTL, t),
          result |->
              The({IF packageConfig = Null THEN Null
                   ELSE IF UsesVolta(packageConfig.volta)
                   THEN ConfigResult(packageConfig.volta,
                                     "package.json (volta.node)")
                   ELSE IF Truthy(packageConfig.engines)
                   THEN ConfigResult(packageConfig.engines,
                                     "package.json (engines.node)")
                   ELSE Null :
                   packageConfig \in {CachedValue(c, NS_CONFIG_FILES,
                                                  PackageJsonKey, produced, t)}})] :
         produced \in {ReadPackageJsonProducer(fs["package.json"])}})

RECURSIVE CheckPinFiles(_, _, _, _)
\* `for (const check of checks)` from check i on, then the package.json part:
\* the store left and the producer's result
CheckPinFiles(c, t, fs, i) ==
    IF i > Len(Checks) THEN CheckManifest(c, t, fs)
    ELSE The({IF Truthy(version)
              THEN [caches |-> c1, result |-> ConfigResult(version, Checks[i])]
              ELSE CheckPinFiles(c1, t, fs, i + 1) :
              version \in {CheckMethodValue(c, t, fs, Checks[i])},
              c1 \in {CheckMethodCaches(c, t, fs, Checks[i])}})

\* getProjectNodeVersion(root) run to completion (it reads the files
\* synchronously): the store left and the value it resolves to
ProjectNodeVersion(c, t, fs) ==
    The({IF hit # Null THEN [caches |-> c1, result |-> hit]
         ELSE The({[caches |-> CacheSet(produced.caches, NS_CONFIG_FILES,
                                        ProjectVersionKey, produced.result,
                                        ProjectVersionTTL, t),
                    result |-> produced.result] :
                   produced \in {CheckPinFiles(c1, t, fs, 1)}}) :
         hit \in {CacheGet(c, NS_CONFIG_FILES, ProjectVersionKey, t)},
         c1 \in {CacheAfterGet(c, NS_CONFIG_FILES, ProjectVersionKey, t)}})

\* what the producer of isVersionMatch would return for the two versions
\* detectProjectVersionForWorkspace compares (Null when it compares none)
VersionMatchFor(projectConfig, currentVersion) ==
    IF projectConfig # Null /\ Truthy(currentVersion)
    THEN VersionMatchProducer(currentVersion.str, projectConfig.version)
    ELSE Null

\* the producer of detectProjectVersionForWorkspace once both promises of
\* its Promise.all have resolved: the store left and the detection, given
\* the value `produced` the producer of isVersionMatch would return
WorkspaceDetection(c, t, projectConfig, currentVersion, produced) ==
    IF projectConfig = Null
    THEN [caches |-> c, detection |-> [hasConfig |-> FALSE]]
    ELSE IF ~Truthy(currentVersion)
    THEN [caches |-> c,
          detection |-> [hasConfig |-> TRUE,
                         requiredVersion |-> projectConfig.version,
                         source |-> projectConfig.source]]
    ELSE LET key == VersionMatchKey(currentVersion.str, projectConfig.version)
             versionMatch == CachedValue(c, NS_NODE_VERSIONS, key, produced, t)
         IN  [caches |-> CacheAfterCached(c, NS_NODE_VERSIONS, key, produced,
                                          VersionMatchTTL, t),
              detection |-> [hasConfig |-> TRUE,
                             requiredVersion |-> projectConfig.version,
                             source |-> projectConfig.source,
                             currentVersion |-> currentVersion.str,
                             needsSwitch |-> ~versionMatch.matches,
                             targetVersion |->
                                 IF "targetVersion" \in DOMAIN versionMatch
                                 THEN Str(versionMatch.targetVersion)
                                 ELSE Null]]

\* the negation of `!detection.needsSwitch`: a detection without the field
\* needs no switch
NeedsSwitch(detection) ==
    "needsSwitch" \in DOMAIN detection /\ detection.needsSwitch

\* detection.targetVersion || detection.requiredVersion
VersionToSwitch(detection) ==
    IF Truthy(detection.targetVersion) THEN detection.targetVersion.str
    ELSE detection.requiredVersion

\* mutant of SwitchCommand: the nvm command for every manager
SwitchCommandNvm(managerName, version) ==
    <<"n", "v", "m", " ", "u", "s", "e", " ">> \o version

\* the `switch (managerName)` of executeVersionSwitchInTerminal
SwitchCommand(managerName, version) ==
    IF managerName = "nvm"
    THEN <<"n", "v", "m", " ", "u", "s", "e", " ">> \o version
    ELSE <<"n", " ">> \o version

\* getClearCommand
ClearCommand(platformType) ==
    IF platformType = "windows" THEN <<"c", "l", "s">>
    ELSE <<"c", "l", "e", "a", "r">>

\* a handleTerminalCreated call that was not made, and one that returned
NoCall == [pc |-> "none", projectConfig |-> Null, version |-> Null]

ReturnedCall == [pc |-> "returned", projectConfig |-> Null, version |-> Null]

\* who calls handleTerminalCreated: the onDidOpenTerminal listener and
\* checkAllExistingTerminals
Callers == {"onDidOpenTerminal", "checkAllExistingTerminals"}

\* a handleTerminalCreated call that ended in its catch block
ThrewCall == [pc |-> "threw", projectConfig |-> Null, version |-> Null]

\* a terminal of the window: `opened` is what held when its open event was
\* delivered (Null for a terminal that was there before the listeners),
\* `undetermined` whether a handler has returned on a detection with a
\* required version and no current version
Terminal(status) ==
    [status |-> status, opened |-> Null, sent |-> <<>>, timers |-> 0,
     processed |-> FALSE, undetermined |-> FALSE,
     calls |-> [k \in Callers |-> NoCall]]

\* this.processedTerminals.add(terminalId), and the call returns
MarkProcessed(term, caller) ==
    [term EXCEPT !.processed = TRUE, !.calls[caller] = ReturnedCall]

\* executeVersionSwitchInTerminal once getActiveManager has resolved, and
\* the rest of handleTerminalCreated
SwitchInTerminal(term, caller, version, manager) ==
    IF manager = Null THEN MarkProcessed(term, caller)
    ELSE MarkProcessed(
             [term EXCEPT
                 !.sent = Append(term.sent, SwitchCommand(manager.str, version)),
                 !.timers = term.timers + 1],
             caller)

\* handleTerminalCreated from the point the detection is at hand, up to its
\* return or to the await of getActiveManager (which suspends only when no
\* manager is active)
AfterDetection(term, caller, detection, manager) ==
    IF ~detection.hasConfig THEN MarkProcessed(term, caller)
    ELSE IF ~NeedsSwitch(detection)
    THEN [MarkProcessed(term, caller) EXCEPT
             !.undetermined = @ \/ "currentVersion" \notin DOMAIN detection]
    ELSE IF manager = Null
    THEN [term EXCEPT
             !.calls[caller] = [pc |-> "getActiveManager",
                                projectConfig |-> Null,
                                version |-> Str(VersionToSwitch(detection))]]
    ELSE SwitchInTerminal(term, caller, VersionToSwitch(detection), manager)

\* cached() stores the detection `d` its producer returned and the handler
\* goes on
StoreDetection(d, t, term, caller, manager) ==
    [caches |-> CacheSet(d.caches, NS_TERMINAL_PROCESSING, WorkspaceVersionKey,
                         d.detection, WorkspaceVersionTTL, t),
     terminal |-> AfterDetection(term, caller, d.detection, manager)]

\* the producer of detectProjectVersionForWorkspace from the point both
\* promises have resolved, and the handler after it
Detected(c, t, term, caller, projectConfig, currentVersion, manager) ==
    The({StoreDetection(d, t, term, caller, manager) :
         d \in {WorkspaceDetection(c, t, projectConfig, currentVersion, produced) :
                produced \in {VersionMatchFor(projectConfig, currentVersion)}}})

\* handleTerminalCreated(terminal) from the point the detection is not in
\* the cache, up to its first suspension; `project` is what
\* getProjectNodeVersion resolved to and the store it left
DetectWorkspace(project, t, term, caller, manager) ==
    The({IF cur # Null
         THEN Detected(c2, t, term, caller, project.result, cur, manager)
         ELSE [caches |-> c2,
               terminal |->
                   [term EXCEPT
                       !.calls[caller] =
                           [pc |-> IF manager = Null
                                   THEN "detectAndSetActiveManager"
                                   ELSE "getCurrentVersion",
                            projectConfig |-> project.result,
                            version |-> Null]]] :
         cur \in {CacheGet(project.caches, NS_NODE_VERSIONS,
                           CurrentVersionKey, t)},
         c2 \in {CacheAfterGet(project.caches, NS_NODE_VERSIONS,
                               CurrentVersionKey, t)}})

\* handleTerminalCreated(terminal) up to its first suspension
HandleTerminalCreated(c, t, fs, term, caller, manager) ==
    IF term.processed
    THEN [caches |-> c, terminal |-> [term EXCEPT !.calls[caller] = ReturnedCall]]
    ELSE The({IF hit # Null
              THEN [caches |-> c1,
                    terminal |-> AfterDetection(term, caller, hit, manager)]
              ELSE The({DetectWorkspace(project, t, term, caller, manager) :
                        project \in {ProjectNodeVersion(c1, t, fs)}}) :
              hit \in {CacheGet(c, NS_TERMINAL_PROCESSING,
                                WorkspaceVersionKey, t)},
              c1 \in {CacheAfterGet(c, NS_TERMINAL_PROCESSING,
                                    WorkspaceVersionKey, t)}})

\* the chunk of checkAllExistingTerminals: handleTerminalCreated is called
\* for the terminals of `ids` in order, each up to its first suspension
HandleTerminals(c, t, fs, terms, ids, manager) ==
    LET after[i \in 0..Len(ids)] ==
            IF i = 0 THEN [caches |-> c, terminals |-> terms]
            ELSE The({[caches |-> next.caches,
                       terminals |-> [before.terminals
                                         EXCEPT ![ids[i]] = next.terminal]] :
                      before \in {after[i - 1]},
                      next \in {HandleTerminalCreated(
                                    after[i - 1].caches, t, fs,
                                    after[i - 1].terminals[ids[i]],
                                    "checkAllExistingTerminals", manager)}})
    IN  after[Len(ids)]

RECURSIVE InOrder(_)
\* the elements of a set of terminal ids, in increasing order
InOrder(ids) ==
    IF ids = {} THEN <<>>
    ELSE LET least == CHOOSE i \in ids : \A j \in ids : i <= j
         IN  <<least>> \o InOrder(ids \ {least})

\* window.terminals
WindowTerminals(terms) == {tm \in DOMAIN terms : terms[tm].status = "open"}

TerminalStep(next) ==
    /\ caches' = next.caches
    /\ terminals' = next.terminals
    /\ UNCHANGED <<now, ticks, hasConfig, lastCall, queries, settings,
                   installed, nodeVersion>>
    /\ UNCHANGED <<matchVars, detectVars, configVars, clientVars, commandVars>>

\* one handleTerminalCreated call moves on
HandlerStep(tm, next) ==
    TerminalStep([caches |-> next.caches,
                  terminals |-> [terminals EXCEPT ![tm] = next.terminal]])

\* initializeExtension: detectAndSetActiveManager resolves; without a
\* manager the initialization returns
ManagerDetected ==
    /\ activation = "detectAndSetActiveManager"
    /\ activeManager' = IF installed # Null THEN installed ELSE activeManager
    /\ activation' = IF activeManager' = Null THEN "returned"
                     ELSE "waitForVSCodeServices"
    /\ UNCHANGED <<autoSwitchEnabled>>
    /\ TerminalStep([caches |-> caches, terminals |-> terminals])

\* initializeExtension: waitForVSCodeServices resolves and the settings are
\* tested
ServicesReady ==
    /\ activation = "waitForVSCodeServices"
    /\ IF settings.terminalIntegration /\ settings.autoSwitch
       THEN /\ autoSwitchEnabled' = TRUE
            /\ activation' = "waitForTerminalServiceReady"
       ELSE /\ autoSwitchEnabled' = autoSwitchEnabled
            /\ activation' = "returned"
    /\ UNCHANGED <<activeManager>>
    /\ TerminalStep([caches |-> caches, terminals |-> terminals])

\* initializeExtension: waitForTerminalServiceReady resolves and
\* checkAllExistingTerminals starts a handler for every terminal of the
\* window (one chunk: the window has at most three terminals)
CheckAllExistingTerminals ==
    /\ activation = "waitForTerminalServiceReady"
    /\ activation' = "returned"
    /\ UNCHANGED <<autoSwitchEnabled, activeManager>>
    /\ \E ids \in {InOrder(WindowTerminals(terminals))} :
       \E next \in {HandleTerminals(caches, now, files, terminals, ids,
                                    activeManager)} :
           TerminalStep(next)

\* a terminal is opened: the onDidOpenTerminal listener
OpenTerminal(tm) ==
    /\ terminals[tm].status = "unopened"
    /\ LET term == [terminals[tm] EXCEPT
                       !.status = "open",
                       !.opened = [autoSwitchEnabled |-> autoSwitchEnabled,
                                   activeManager |-> activeManager]]
       IN  \E next \in {IF autoSwitchEnabled
                         THEN HandleTerminalCreated(caches, now, files, term,
                                                    "onDidOpenTerminal",
                                                    activeManager)
                         ELSE [caches |-> caches, terminal |-> term]} :
               HandlerStep(tm, next)
    /\ UNCHANGED <<autoSwitchEnabled, activation, activeManager>>

\* a terminal is closed: the onDidCloseTerminal listener
CloseTerminal(tm) ==
    /\ terminals[tm].status = "open"
    /\ HandlerStep(tm, [caches |-> caches,
                     terminal |-> [terminals[tm] EXCEPT !.status = "closed",
                                                        !.processed = FALSE]])
    /\ UNCHANGED <<autoSwitchEnabled, activation, activeManager>>

\* the detectAndSetActiveManager that a handler's getActiveManager started
\* resolves: in getCurrentNodeVersion the version command follows (without
\* a manager the version is null), in executeVersionSwitchInTerminal the
\* switch
ActiveManagerResolves(tm, caller) ==
    /\ terminals[tm].calls[caller].pc \in {"detectAndSetActiveManager",
                                          "getActiveManager"}
    /\ activeManager' = IF installed # Null THEN installed ELSE activeManager
    /\ LET call == terminals[tm].calls[caller]
       IN  \E next \in {
               IF call.pc = "getActiveManager"
               THEN [caches |-> caches,
                     terminal |-> SwitchInTerminal(terminals[tm], caller,
                                      call.version.str, activeManager')]
               ELSE IF activeManager' = Null
               THEN Detected(CacheSet(caches, NS_NODE_VERSIONS,
                                      CurrentVersionKey, Null,
                                      CurrentVersionTTL, now),
                             now, terminals[tm], caller, call.projectConfig,
                             Null, activeManager')
               ELSE [caches |-> caches,
                     terminal |-> [terminals[tm] EXCEPT
                                      !.calls[caller].pc = "getCurrentVersion"]]} :
               HandlerStep(tm, next)
    /\ UNCHANGED <<autoSwitchEnabled, activation>>

\* getCurrentNodeVersion of a handler: manager.getCurrentVersion() resolves
\* to `version`; cached() stores it, the detection is computed and stored,
\* and the handler goes on
CurrentVersionReturns(tm, caller, version) ==
    /\ terminals[tm].calls[caller].pc = "getCurrentVersion"
    /\ \E produced \in {VersionMatchFor(
                             terminals[tm].calls[caller].projectConfig,
                             version)} :
       \E d \in {WorkspaceDetection(
                     CacheSet(caches, NS_NODE_VERSIONS, CurrentVersionKey,
                              version, CurrentVersionTTL, now),
                     now, terminals[tm].calls[caller].projectConfig,
                     version, produced)} :
       \E next \in {StoreDetection(d, now, terminals[tm], caller,
                                   activeManager)} :
           HandlerStep(tm, next)
    /\ UNCHANGED <<autoSwitchEnabled, activation, activeManager>>

\* the version command of the handler's manager reports `nodeVersion`
CurrentVersionResolves(tm, caller) ==
    CurrentVersionReturns(tm, caller, nodeVersion)

\* the version command of the handler's manager fails (non-zero exit, empty
\* output or timeout): manager.getCurrentVersion() resolves to null
CurrentVersionFails(tm, caller) ==
    /\ nodeVersion # Null
    /\ CurrentVersionReturns(tm, caller, Null)

\* a terminal is opened and the handler the listener starts throws before
\* its first await: the catch block of handleTerminalCreated logs the error
OpenTerminalThrows(tm) ==
    /\ terminals[tm].status = "unopened"
    /\ autoSwitchEnabled
    /\ ~terminals[tm].processed
    /\ HandlerStep(tm,
           [caches |-> caches,
            terminal |-> [terminals[tm] EXCEPT
                             !.status = "open",
                             !.opened = [autoSwitchEnabled |-> autoSwitchEnabled,
                                         activeManager |-> activeManager],
                             !.calls["onDidOpenTerminal"] = ThrewCall]])
    /\ UNCHANGED <<autoSwitchEnabled, activation, activeManager>>

\* the setTimeout of executeVersionSwitchInTerminal fires: the clear command
ClearTimerFires(tm) ==
    /\ terminals[tm].timers > 0
    /\ HandlerStep(tm,
           [caches |-> caches,
            terminal |-> [terminals[tm] EXCEPT
                             !.sent = Append(terminals[tm].sent,
                                             ClearCommand(platform)),
                             !.timers = terminals[tm].timers - 1]])
    /\ UNCHANGED <<autoSwitchEnabled, activation, activeManager>>

\* a workspace with .nvmrc holding `pin` (Null: no configuration file)
WorkspaceFiles(pin) ==
    [name \in ConfigFileNames |->
        IF name = ".nvmrc" /\ pin # Null THEN TextFile(pin.str) ELSE AbsentFile]

\* the workspaces of the model: the configuration and the version the
\* manager reports as current
Workspaces ==
    {[files |-> WorkspaceFiles(Null),
      nodeVersion |-> Str(<<"2", "0", ".", "1", ".", "0">>)],
     [files |-> WorkspaceFiles(Str(<<"2", "0", ".", "1", ".", "0">>)),
      nodeVersion |-> Str(<<"2", "0", ".", "1", ".", "0">>)],
     [files |-> WorkspaceFiles(Str(<<"1", "8", ".", "0", ".", "0">>)),
      nodeVersion |-> Str(<<"2", "0", ".", "1", ".", "0">>)],
     [files |-> WorkspaceFiles(Str(<<"1", "8">>)),
      nodeVersion |-> Str(<<"2", "0", ".", "1", ".", "0">>)],
     [files |-> WorkspaceFiles(Str(<<"1", "8", ".", "0", ".", "0">>)),
      nodeVersion |-> Null]}

\* the state when activate() has constructed the services, registered the
\* terminal listeners and called initializeExtension
TerminalInit ==
    /\ caches = EmptyCaches
    /\ now = 0
    /\ ticks = 0
    /\ platform = "unix"
    /\ \E w \in Workspaces : files = w.files /\ nodeVersion = w.nodeVersion
    /\ installed \in {Null, Str("nvm"), Str("n")}
    /\ settings \in [autoSwitch : BOOLEAN, terminalIntegration : BOOLEAN]
    /\ autoSwitchEnabled = TRUE
    /\ activation = "detectAndSetActiveManager"
    /\ activeManager = Null
    /\ terminals \in [TerminalIds -> {Terminal("open"), Terminal("unopened")}]
    /\ hasConfig = Null
    /\ lastCall = Null
    /\ queries = <<>>
    /\ detectRuns = <<>>
    /\ current = <<>>
    /\ required = <<>>
    /\ matchResult = Null
    /\ matchCalls = 0
    /\ producerRuns = 0
    /\ writes = 0
    /\ configRuns = <<>>
    /\ cacheCalls = <<>>
    /\ lastSet = <<>>
    /\ lastGet = Null
    /\ cacheOps = 0
    /\ commands = <<>>

TerminalNext ==
    \/ ManagerDetected
    \/ ServicesReady
    \/ CheckAllExistingTerminals
    \/ \E tm \in TerminalIds : OpenTerminal(tm)
    \/ \E tm \in TerminalIds : CloseTerminal(tm)
    \/ \E tm \in TerminalIds, caller \in Callers :
           ActiveManagerResolves(tm, caller)
    \/ \E tm \in TerminalIds, caller \in Callers :
           CurrentVersionResolves(tm, caller)
    \/ \E tm \in TerminalIds : ClearTimerFires(tm)

SpecTerminal == TerminalInit /\ [][TerminalNext]_vars

\* manager.getCurrentVersion() runs its command under a timeout, so the
\* promise a handler awaits is settled: while handlers wait, one of them
\* is resumed
TerminalFairness ==
    WF_vars(\E tm \in TerminalIds, caller \in Callers :
                CurrentVersionResolves(tm, caller))

SpecTerminalLive == TerminalInit /\ [][TerminalNext]_vars /\ TerminalFairness

\* the terminal handlers with failing version commands and throwing handlers
TerminalFaultsNext ==
    \/ TerminalNext
    \/ \E tm \in TerminalIds, caller \in Callers :
           CurrentVersionFails(tm, caller)
    \/ \E tm \in TerminalIds : OpenTerminalThrows(tm)

SpecTerminalFaults == TerminalInit /\ [][TerminalFaultsNext]_vars


(***************************************************************************)
(* getProjectNodeVersion next to direct readNvmrc / readNodeVersion calls  *)
(* while .nvmrc is rewritten; `lastSet` is file -> the time of the last    *)
(* write to it, `lastCall` the last call of the reader and its result      *)
(***************************************************************************)
\* clock steps of this specification
MaxStaleTicks == 2

\* amounts by which Date.now() advances: within the per-file TTL, and from
\* there past the aggregate TTL counted from the start
StaleTickSteps == {50 * 1000, 71 * 1000}

\* the contents .nvmrc takes
PinContents == {<<"1", "8", ".", "0", ".", "0">>, <<"2", "0", ".", "1", ".", "0">>}

ReaderStep(call) ==
    /\ lastCall' = call
    /\ UNCHANGED <<now, ticks, files, writes, configRuns, lastSet, hasConfig,
                   queries, terminalVars, cacheCalls, lastGet, cacheOps>>
    /\ UNCHANGED <<matchVars, detectVars, commandVars>>

\* a caller invokes getProjectNodeVersion(root)
CallGetProjectNodeVersion ==
    \E next \in {ProjectNodeVersion(caches, now, files)} :
        /\ caches' = next.caches
        /\ ReaderStep([op |-> "getProjectNodeVersion", at |-> now,
                       returned |-> next.result])

\* a caller invokes readNvmrc(root) or readNodeVersion(root)
CallReadVersionFile ==
    \E source \in {".nvmrc", ".node-version"} :
        /\ caches' = CheckMethodCaches(caches, now, files, source)
        /\ ReaderStep([op |-> source, at |-> now,
                       returned |-> CheckMethodValue(caches, now, files, source)])

\* .nvmrc is rewritten with another content
WritePinFile ==
    /\ writes < MaxWrites
    /\ \E content \in PinContents :
           /\ files[".nvmrc"] # TextFile(content)
           /\ files' = [files EXCEPT ![".nvmrc"] = TextFile(content)]
    /\ writes' = writes + 1
    /\ lastSet' = [name \in {".nvmrc"} |-> now]
    /\ UNCHANGED <<caches, now, ticks, configRuns, lastCall, hasConfig, queries,
                   terminalVars, cacheCalls, lastGet, cacheOps>>
    /\ UNCHANGED <<matchVars, detectVars, commandVars>>

StaleTick ==
    /\ ticks < MaxStaleTicks
    /\ \E d \in StaleTickSteps : now' = now + d
    /\ ticks' = ticks + 1
    /\ UNCHANGED <<caches, clientVars>>
    /\ UNCHANGED <<matchVars, detectVars, configVars, commandVars, callerVars>>

StaleInit ==
    /\ caches = EmptyCaches
    /\ now = 0
    /\ ticks = 0
    /\ cacheCalls = <<>>
    /\ lastSet = <<>>
    /\ lastGet = Null
    /\ cacheOps = 0
    /\ current = <<>>
    /\ required = <<>>
    /\ matchResult = Null
    /\ matchCalls = 0
    /\ producerRuns = 0
    /\ platform = "unix"
    /\ detectRuns = <<>>
    /\ \E content \in PinContents : files = WorkspaceFiles(Str(content))
    /\ writes = 0
    /\ configRuns = <<>>
    /\ commands = <<>>
    /\ CallersIdle

StaleNext ==
    \/ CallGetProjectNodeVersion
    \/ CallReadVersionFile
    \/ WritePinFile
    \/ StaleTick

SpecStale == StaleInit /\ [][StaleNext]_vars


(***************************************************************************)
(* BaseNodeManager.executeGenericCommand and                               *)
(* NVMManager.executeShellCommand, from the point spawn() has returned the *)
(* child: three callbacks share the flag `resolved` and the promise        *)
(***************************************************************************)
\* the two functions
CommandKinds == {"executeGenericCommand", "executeShellCommand"}

\* the timeout the caller passes: omitted (Null) or 5000 ms
TimeoutOptions == {Null, Num(5000)}

\* options.timeout || 15000, and the default parameter timeout = 15000
CommandTimeout(option) == IF option = Null THEN 15000 ELSE option.num

\* the code the close event carries: 0, another exit code, or null when the
\* child was ended by a signal
CloseCodes == {Num(0), Num(1), Null}

\* code || 0
CodeOrZero(code) == IF code = Null THEN 0 ELSE code.num

\* the result passed to resolve() by the close handler
CloseResult(code) ==
    [exitCode |-> CodeOrZero(code), success |-> CodeOrZero(code) = 0,
     stderr |-> ""]

\* the result passed to resolve() by the error handler
ErrorResult == [exitCode |-> -1, success |-> FALSE, stderr |-> "error.message"]

\* the result passed to resolve() by the timer callback
TimeoutResult == [exitCode |-> -1, success |-> FALSE, stderr |-> "Command timeout"]

\* a command that has not been started
IdleCommand ==
    [pc |-> "idle", kind |-> "executeGenericCommand", timeout |-> 0,
     startedAt |-> 0, resolved |-> FALSE, timer |-> "none", killed |-> FALSE,
     closeEmitted |-> FALSE, errorEmitted |-> FALSE, resolveCalls |-> <<>>,
     settled |-> Null]

CommandIds == 1..MaxCommands

\* resolve(result): the first call settles the promise
Resolve(cmd, result) ==
    [cmd EXCEPT !.resolveCalls = Append(cmd.resolveCalls, result),
                !.settled = IF cmd.settled = Null THEN result ELSE cmd.settled]

\* mutant of NotResolved: the callbacks do not look at the flag
NotResolvedIgnored(cmd) == TRUE

\* if (!resolved)
NotResolved(cmd) == ~cmd.resolved

CommandStep(c, cmd) ==
    /\ commands' = [commands EXCEPT ![c] = cmd]
    /\ UNCHANGED <<cacheVars, matchVars, detectVars, configVars, clientVars,
                   callerVars>>

\* the function is called: the child is spawned, the listeners are attached
\* and the timer is set
StartCommand(c) ==
    /\ commands[c].pc = "idle"
    /\ \A d \in CommandIds : d < c => commands[d].pc # "idle"
    /\ \E kind \in CommandKinds, option \in TimeoutOptions :
          CommandStep(c, [IdleCommand EXCEPT !.pc = "running", !.kind = kind,
                                             !.timeout = CommandTimeout(option),
                                             !.startedAt = now,
                                             !.timer = "set"])

\* the callback of setTimeout runs
TimerFires(c) ==
    /\ commands[c].pc = "running"
    /\ commands[c].timer = "set"
    /\ now - commands[c].startedAt >= commands[c].timeout
    /\ LET cmd == [commands[c] EXCEPT !.timer = "fired"]
       IN  CommandStep(c,
               IF NotResolved(cmd)
               THEN Resolve([cmd EXCEPT !.resolved = TRUE, !.killed = TRUE],
                            TimeoutResult)
               ELSE cmd)

\* the child emits close
ChildClose(c) ==
    /\ commands[c].pc = "running"
    /\ ~commands[c].closeEmitted
    /\ \E code \in CloseCodes :
          LET cmd == [commands[c] EXCEPT !.closeEmitted = TRUE]
          IN  CommandStep(c,
                  IF NotResolved(cmd)
                  THEN Resolve([cmd EXCEPT !.resolved = TRUE,
                                           !.timer = "cleared"],
                               CloseResult(code))
                  ELSE cmd)

\* the child emits error
ChildError(c) ==
    /\ commands[c].pc = "running"
    /\ ~commands[c].errorEmitted
    /\ LET cmd == [commands[c] EXCEPT !.errorEmitted = TRUE]
       IN  CommandStep(c,
               IF NotResolved(cmd)
               THEN Resolve([cmd EXCEPT !.resolved = TRUE, !.timer = "cleared"],
                            ErrorResult)
               ELSE cmd)

CommandTick ==
    Tick /\ UNCHANGED <<matchVars, detectVars, configVars, clientVars,
                 commandVars, callerVars>>

CommandInit ==
    /\ caches = EmptyCaches
    /\ now = 0
    /\ ticks = 0
    /\ commands = [c \in CommandIds |-> IdleCommand]
    /\ CallersIdle
    /\ current = <<>>
    /\ required = <<>>
    /\ matchResult = Null
    /\ matchCalls = 0
    /\ producerRuns = 0
    /\ platform = "unix"
    /\ detectRuns = <<>>
    /\ files = <<>>
    /\ writes = 0
    /\ configRuns = <<>>
    /\ cacheCalls = <<>>
    /\ lastSet = <<>>
    /\ lastGet = Null
    /\ cacheOps = 0

CommandNext ==
    \/ \E c \in CommandIds : StartCommand(c)
    \/ \E c \in CommandIds : TimerFires(c)
    \/ \E c \in CommandIds : ChildClose(c)
    \/ \E c \in CommandIds : ChildError(c)
    \/ CommandTick

SpecCommand == CommandInit /\ [][CommandNext]_vars


(***************************************************************************)
(* Node Manager Service: the active manager                                *)
(***************************************************************************)
\* calls of detectAndSetActiveManager and getActiveManager made by callers
MaxManagerCalls == 3

\* NodeManagerService.config.preferredManager as the constructor sets it
PreferredManager == "auto"

\* initializeManagers: the keys of this.managers
RegisteredManagers(platformType) ==
    IF platformType # "windows" THEN {"nvm", "n"} ELSE {"nvm"}

\* the lists detectAllManagers resolves to
DetectionLists ==
    {<<AvailableResultNoPath("nvm")>>,
     <<UnavailableResult("nvm", "error"), AvailableResultNoPath("n")>>,
     <<UnavailableResult("nvm", "error"), UnavailableResult("n", "error")>>}

\* a || b on descriptors
OrElse(a, b) == IF a # Null THEN a ELSE b

\* the selection of detectAndSetActiveManager among the available managers
SelectManager(preferredManager, availableManagers) ==
    IF preferredManager = "auto"
    THEN OrElse(FindType(availableManagers, "nvm"),
                OrElse(FindType(availableManagers, "n"), availableManagers[1]))
    ELSE IF preferredManager # "unknown"
    THEN OrElse(FindType(availableManagers, preferredManager),
                availableManagers[1])
    ELSE Null

\* the field this.activeManager when a detection finds nothing available:
\* detectAndSetActiveManager returns null before any assignment
KeepActive(active) == active

\* this.managers.get(selectedManager.type) || null
ManagerOfType(platformType, type) ==
    IF type \in RegisteredManagers(platformType) THEN Str(type) ELSE Null

\* detectAndSetActiveManager from the point detectAllManagers has resolved
\* to `detectionResults`: the field afterwards and the value returned
SetActiveManager(active, platformType, detectionResults) ==
    LET availableManagers == SelectSeq(detectionResults, IsAvailable)
        selectedManager == SelectManager(PreferredManager, availableManagers)
    IN  IF Len(availableManagers) = 0
        THEN [activeManager |-> KeepActive(active), returned |-> Null]
        ELSE IF selectedManager # Null
        THEN [activeManager |-> ManagerOfType(platformType, selectedManager.type),
              returned |-> ManagerOfType(platformType, selectedManager.type)]
        ELSE [activeManager |-> active, returned |-> active]

\* a call of the service as a caller sees it: `found` is the list its
\* detection resolved to (Null when the call made no detection)
ManagerCall(method, found, returned) ==
    [method |-> method, found |-> found, returned |-> returned]

ManagerStep(call) ==
    /\ Len(queries) < MaxManagerCalls
    /\ queries' = Append(queries, call)
    /\ UNCHANGED <<hasConfig, lastCall, settings, autoSwitchEnabled, activation,
                   installed, nodeVersion, terminals>>
    /\ UNCHANGED <<cacheVars, matchVars, detectVars, configVars, clientVars,
                   commandVars>>

\* a caller invokes detectAndSetActiveManager()
DetectAndSetActiveManager ==
    \E detectionResults \in DetectionLists :
    \E next \in {SetActiveManager(activeManager, platform, detectionResults)} :
        /\ activeManager' = next.activeManager
        /\ ManagerStep(ManagerCall("detectAndSetActiveManager",
                                   ListValue(detectionResults), next.returned))

\* a caller invokes getActiveManager() while a manager is active
GetActiveManager ==
    /\ activeManager # Null
    /\ activeManager' = activeManager
    /\ ManagerStep(ManagerCall("getActiveManager", Null, activeManager))

\* a caller invokes getActiveManager() while no manager is active: it awaits
\* detectAndSetActiveManager() and returns the field
GetActiveManagerDetects ==
    /\ activeManager = Null
    /\ \E detectionResults \in DetectionLists :
       \E next \in {SetActiveManager(activeManager, platform, detectionResults)} :
           /\ activeManager' = next.activeManager
           /\ ManagerStep(ManagerCall("getActiveManager",
                                      ListValue(detectionResults),
                                      next.activeManager))

ManagerInit ==
    /\ caches = EmptyCaches
    /\ now = 0
    /\ ticks = 0
    /\ cacheCalls = <<>>
    /\ lastSet = <<>>
    /\ lastGet = Null
    /\ cacheOps = 0
    /\ current = <<>>
    /\ required = <<>>
    /\ matchResult = Null
    /\ matchCalls = 0
    /\ producerRuns = 0
    /\ platform \in {"unix", "windows"}
    /\ detectRuns = <<>>
    /\ files = <<>>
    /\ writes = 0
    /\ configRuns = <<>>
    /\ commands = <<>>
    /\ CallersIdle

ManagerNext ==
    \/ DetectAndSetActiveManager
    \/ GetActiveManager
    \/ GetActiveManagerDetects

SpecManager == ManagerInit /\ [][ManagerNext]_vars


(***************************************************************************)
(* Version Cache: the Map of the VersionCache singleton, held in `caches`  *)
(* as key -> entry                                                         *)
(***************************************************************************)
\* PlatformType
PlatformTypes ==
    {<<"w", "i", "n", "d", "o", "w", "s">>, <<"m", "a", "c", "o", "s">>,
     <<"l", "i", "n", "u", "x">>}

\* the managers whose versions are cached
ManagerNames == {<<"n", "v", "m">>, <<"n">>}

CurrentVersionText ==
    <<"c", "u", "r", "r", "e", "n", "t", "-", "v", "e", "r", "s", "i", "o", "n">>

InstalledVersionsText ==
    <<"i", "n", "s", "t", "a", "l", "l", "e", "d", "-",
      "v", "e", "r", "s", "i", "o", "n", "s">>

AvailableVersionsText ==
    <<"a", "v", "a", "i", "l", "a", "b", "l", "e", "-",
      "v", "e", "r", "s", "i", "o", "n", "s">>

\* CacheKeyGenerator.currentVersion: `${manager}-${platform}-current-version`
currentVersion(manager, platformType) ==
    manager \o <<"-">> \o platformType \o <<"-">> \o CurrentVersionText

\* CacheKeyGenerator.installedVersions
installedVersions(manager, platformType) ==
    manager \o <<"-">> \o platformType \o <<"-">> \o InstalledVersionsText

\* CacheKeyGenerator.availableVersions
availableVersions(manager, platformType) ==
    manager \o <<"-">> \o platformType \o <<"-">> \o AvailableVersionsText

RECURSIVE JoinWith(_, _)
\* args.join(sep)
JoinWith(parts, sep) ==
    IF parts = <<>> THEN <<>>
    ELSE IF Len(parts) = 1 THEN parts[1]
    ELSE parts[1] \o sep \o JoinWith(Tail(parts), sep)

\* CacheKeyGenerator.commandResult: `${manager}-command-${command}-${args.join('-')}`
commandResult(manager, command, args) ==
    manager \o <<"-", "c", "o", "m", "m", "a", "n", "d", "-">> \o command
        \o <<"-">> \o JoinWith(args, <<"-">>)

\* the keys CacheKeyGenerator builds for the managers on one platform, and
\* for the command `ls 18`
GeneratedKeys(platformType) ==
    UNION {{currentVersion(m, platformType), installedVersions(m, platformType),
            availableVersions(m, platformType),
            commandResult(m, <<"l", "s">>, <<<<"1", "8">>>>)} :
           m \in ManagerNames}

VersionCacheDefaultTTL == 30000

VersionCacheCurrentTTL == 5000

VersionCacheInstalledTTL == 60000

VersionCacheAvailableTTL == 300000

\* VersionCache.getTTLForKey
getTTLForKey(key) ==
    IF Includes(key, CurrentVersionText) THEN VersionCacheCurrentTTL
    ELSE IF Includes(key, InstalledVersionsText) THEN VersionCacheInstalledTTL
    ELSE IF Includes(key, AvailableVersionsText) THEN VersionCacheAvailableTTL
    ELSE VersionCacheDefaultTTL

\* VersionCache.set(key, value, ttl): `ttl` 0 stands for an omitted ttl
VersionCacheSet(c, key, value, ttl, t) ==
    [k \in DOMAIN c \cup {key} |->
        IF k = key
        THEN [value |-> value, timestamp |-> t,
              ttl |-> IF ttl # 0 THEN ttl ELSE getTTLForKey(key)]
        ELSE c[k]]

\* VersionCache.get(key): the value returned, Null for null
VersionCacheGet(c, key, t) ==
    IF key \notin DOMAIN c THEN Null
    ELSE IF t - c[key].timestamp > c[key].ttl THEN Null
    ELSE c[key].value

\* the Map after VersionCache.get(key), which deletes an expired entry
VersionCacheAfterGet(c, key, t) ==
    IF key \in DOMAIN c /\ t - c[key].timestamp > c[key].ttl
    THEN [k \in DOMAIN c \ {key} |-> c[k]]
    ELSE c

\* the keys invalidateVersionCaches(manager) collects in keysToDelete
keysToDelete(c, manager) ==
    {key \in DOMAIN c :
        /\ Includes(key, manager)
        /\ (Includes(key, CurrentVersionText)
            \/ Includes(key, InstalledVersionsText))}

\* VersionCache.invalidateVersionCaches(manager)
invalidateVersionCaches(c, manager) ==
    [k \in DOMAIN c \ keysToDelete(c, manager) |-> c[k]]

VersionCacheStep(call) ==
    /\ lastCall' = call
    /\ UNCHANGED <<now, ticks, hasConfig, queries, terminalVars>>
    /\ UNCHANGED <<matchVars, detectVars, configVars, clientVars, commandVars>>

\* a manager stores a value under a generated key
VersionSet ==
    \E key \in GeneratedKeys(platform) :
        /\ caches' = VersionCacheSet(caches, key, Str(<<"1", "8">>), 0, now)
        /\ VersionCacheStep([op |-> "set", manager |-> Null, before |-> {}])

\* a caller invokes invalidateVersionCaches(manager)
InvalidateVersionCaches ==
    \E manager \in ManagerNames :
        /\ caches' = invalidateVersionCaches(caches, manager)
        /\ VersionCacheStep([op |-> "invalidateVersionCaches",
                             manager |-> Str(manager),
                             before |-> DOMAIN caches])

\* `platform` holds the PlatformType the keys are generated for, as text
VersionCacheInit ==
    /\ caches = EmptyCaches
    /\ now = 0
    /\ ticks = 0
    /\ cacheCalls = <<>>
    /\ lastSet = <<>>
    /\ lastGet = Null
    /\ cacheOps = 0
    /\ current = <<>>
    /\ required = <<>>
    /\ matchResult = Null
    /\ matchCalls = 0
    /\ producerRuns = 0
    /\ platform \in PlatformTypes
    /\ detectRuns = <<>>
    /\ files = <<>>
    /\ writes = 0
    /\ configRuns = <<>>
    /\ commands = <<>>
    /\ CallersIdle

VersionCacheNext == VersionSet \/ InvalidateVersionCaches

SpecVersionCache == VersionCacheInit /\ [][VersionCacheNext]_vars


(***************************************************************************)
(* NVMManager.getCurrentVersion over the VersionCache; `commands` is the   *)
(* sequence of `node --version` executions, `cacheCalls` the invocations   *)
(***************************************************************************)
\* invocations of getCurrentVersion
MaxVersionCalls == 2

VersionCallIds == 1..MaxVersionCalls

\* amounts by which Date.now() advances between two steps: within the
\* 2-second window, between the two windows, and past the 5-second one
VersionTickSteps == {1000, 2001, 5001}

\* how `node --version` ends: a version on stdout, no success or an empty
\* stdout, or an exception
NodeCommandOutcomes == {"version", "unsuccessful", "throws"}

\* nodeResult.stdout.trim().replace(/^v/, "") of a successful command
ParsedVersion == Str(StripV(Trim(<<"v", "2", "0", ".", "1", ".", "0", "\n">>)))

\* TTL of a version obtained, and of a null result
ObtainedTTL == 5000

NullTTL == 2000

IdleVersionCall ==
    [pc |-> "idle", outcome |-> "none", returned |-> Null, at |-> 0]

\* the key of getCurrentVersion
NvmCurrentVersionKey == currentVersion(<<"n", "v", "m">>, platform)

\* cached !== null, for cached = this.cache.get(cacheKey)
CachedHit(c, key, t) == VersionCacheGet(c, key, t) # Null

VersionStep ==
    /\ UNCHANGED <<ticks, now, lastSet, lastGet, cacheOps>>
    /\ UNCHANGED <<matchVars, detectVars, configVars, callerVars>>

\* getCurrentVersion() is called: the cached value is returned, or
\* executeNodeCommand starts `node --version`
GetCurrentVersion(i) ==
    /\ cacheCalls[i].pc = "idle"
    /\ caches' = VersionCacheAfterGet(caches, NvmCurrentVersionKey, now)
    /\ IF CachedHit(caches, NvmCurrentVersionKey, now)
       THEN /\ cacheCalls' =
                   [cacheCalls EXCEPT
                       ![i] = [pc |-> "done", outcome |-> "cached",
                               returned |-> VersionCacheGet(
                                   caches, NvmCurrentVersionKey, now),
                               at |-> now]]
            /\ commands' = commands
       ELSE /\ cacheCalls' = [cacheCalls EXCEPT ![i].pc = "executing"]
            /\ commands' = Append(commands, [call |-> i, startedAt |-> now])
    /\ VersionStep

\* the command of invocation i ends and the invocation returns
NodeCommandEnds(i) ==
    /\ cacheCalls[i].pc = "executing"
    /\ \E outcome \in NodeCommandOutcomes :
           /\ caches' =
                  IF outcome = "version"
                  THEN VersionCacheSet(caches, NvmCurrentVersionKey,
                                       ParsedVersion, ObtainedTTL, now)
                  ELSE IF outcome = "unsuccessful"
                  THEN VersionCacheSet(caches, NvmCurrentVersionKey, Null,
                                       NullTTL, now)
                  ELSE caches
           /\ cacheCalls' =
                  [cacheCalls EXCEPT
                      ![i] = [pc |-> "done", outcome |-> outcome,
                              returned |-> IF outcome = "version"
                                           THEN ParsedVersion ELSE Null,
                              at |-> now]]
    /\ commands' = commands
    /\ VersionStep

VersionTick ==
    /\ ticks < MaxTicks
    /\ \E d \in VersionTickSteps : now' = now + d
    /\ ticks' = ticks + 1
    /\ UNCHANGED <<caches, clientVars>>
    /\ UNCHANGED <<matchVars, detectVars, configVars, commandVars, callerVars>>

CurrentVersionInit ==
    /\ caches = EmptyCaches
    /\ now = 0
    /\ ticks = 0
    /\ cacheCalls = [i \in VersionCallIds |-> IdleVersionCall]
    /\ lastSet = <<>>
    /\ lastGet = Null
    /\ cacheOps = 0
    /\ current = <<>>
    /\ required = <<>>
    /\ matchResult = Null
    /\ matchCalls = 0
    /\ producerRuns = 0
    /\ platform \in PlatformTypes
    /\ detectRuns = <<>>
    /\ files = <<>>
    /\ writes = 0
    /\ configRuns = <<>>
    /\ commands = <<>>
    /\ CallersIdle

CurrentVersionNext ==
    \/ \E i \in VersionCallIds : GetCurrentVersion(i)
    \/ \E i \in VersionCallIds : NodeCommandEnds(i)
    \/ VersionTick

SpecCurrentVersion == CurrentVersionInit /\ [][CurrentVersionNext]_vars


(***************************************************************************)
(* Manager Detector: claims                                                *)
(***************************************************************************)
\* positions of an event in the log of a run
Positions(log, event) == {i \in 1..Len(log) : log[i] = event}

\* the primary probe of run r has reported
NvmReported(r) == detectRuns[r].nvmResult # Null

(***************************************************************************)
(* C1: in every run of detectAllManagers in which the nvm probe reports    *)
(* available, the returned list has exactly one entry, the nvm descriptor, *)
(* and the n probe is never invoked in that run.                           *)
(***************************************************************************)
C1_ShortCircuit ==
    \A r \in DetectRunIds :
        LET run == detectRuns[r]
        IN  (NvmReported(r) /\ run.nvmResult.available)
                => /\ Positions(run.log, "detectN called") = {}
                   /\ Positions(run.log, "spawn n") = {}
                   /\ run.pc = "done"
                   /\ run.returned = ListValue(<<run.nvmResult>>)
                   /\ run.nvmResult.type = "nvm"

\* a run has started the nvm command, found nvm and returned
C1_Witness ==
    \E r \in DetectRunIds :
        /\ detectRuns[r].pc = "done"
        /\ Positions(detectRuns[r].log, "spawn nvm") # {}
        /\ NvmReported(r)
        /\ detectRuns[r].nvmResult.available
        /\ Len(detectRuns[r].returned.list) = 1

(***************************************************************************)
(* C2: in every run of detectAllManagers in which the nvm probe reports    *)
(* unavailable, the n probe is invoked strictly after the nvm probe has    *)
(* completed, and the result is the two descriptors in the order [nvm, n]. *)
(***************************************************************************)
C2_SecondaryAfterPrimary ==
    \A r \in DetectRunIds :
        LET run == detectRuns[r]
        IN  /\ \A j \in Positions(run.log, "detectN called") :
                   \E i \in Positions(run.log, "detectNVM returned") : i < j
            /\ (NvmReported(r) /\ ~run.nvmResult.available)
                   => /\ Positions(run.log, "detectN called") # {}
                      /\ run.pc = "done"
                             => /\ run.nResult # Null
                                /\ run.returned =
                                       ListValue(<<run.nvmResult, run.nResult>>)
                                /\ run.nvmResult.type = "nvm"
                                /\ run.nResult.type = "n"

\* a run has found no nvm, has then run the n command and returned two
\* descriptors
C2_Witness ==
    \E r \in DetectRunIds :
        /\ detectRuns[r].pc = "done"
        /\ NvmReported(r)
        /\ ~detectRuns[r].nvmResult.available
        /\ Positions(detectRuns[r].log, "spawn n") # {}
        /\ Len(detectRuns[r].returned.list) = 2


(***************************************************************************)
(* Config Resolver: claims                                                 *)
(***************************************************************************)
\* the priority of the configuration sources
SourcePriority ==
    <<".nvmrc", ".node-version", ".tool-versions",
      "package.json (volta.node)", "package.json (engines.node)">>

\* a source consulted by a run gave a non-empty version
Yields(read) == read.version # Null /\ read.version.str # <<>>

(***************************************************************************)
(* C3: getProjectNodeVersion checks the sources strictly in the order      *)
(* .nvmrc > .node-version > .tool-versions > package.json volta.node >     *)
(* package.json engines.node, stops at the first source that yields a      *)
(* non-empty version and returns that version (normalized) with that       *)
(* source's name; a lower-priority source never overrides a higher one.    *)
(***************************************************************************)
C3_SourcePriority ==
    \A r \in ConfigRunIds :
        LET run == configRuns[r]
            reads == run.reads
        IN  /\ Len(reads) <= Len(SourcePriority)
            /\ \A i \in 1..Len(reads) : reads[i].source = SourcePriority[i]
            /\ \A i \in 1..(Len(reads) - 1) : ~Yields(reads[i])
            /\ run.pc # "done" => \A i \in 1..Len(reads) : ~Yields(reads[i])
            /\ (run.pc = "done" /\ run.computed)
                   => IF Yields(reads[Len(reads)])
                      THEN /\ run.returned.source = reads[Len(reads)].source
                           /\ run.returned.version =
                                  normalizeVersion(reads[Len(reads)].version.str)
                      ELSE /\ Len(reads) = Len(SourcePriority)
                           /\ run.returned = Null

\* with .nvmrc holding "16" and package.json engines.node ">=18", a run has
\* returned version "16" from .nvmrc
C3_Witness ==
    \E r \in ConfigRunIds :
        /\ configRuns[r].pc = "done"
        /\ configRuns[r].computed
        /\ files[".nvmrc"] = TextFile(<<"1", "6", "\n">>)
        /\ files["package.json"] = JsonFile(Str(<<">", "=", "1", "8">>), Null)
        /\ configRuns[r].returned = [version |-> <<"1", "6">>, source |-> ".nvmrc"]


(***************************************************************************)
(* Version Matcher: what the specification asks for                        *)
(***************************************************************************)
\* a version string with one leading "v" removed
WithoutLeadingV(s) == IF s # <<>> /\ s[1] = "v" THEN Tail(s) ELSE s

IsNumericText(c) == c # <<>> /\ \A i \in 1..Len(c) : c[i] \in Digits

\* ParsedVersion: component i of a dotted string as a non-negative integer,
\* 0 when the component is missing or not numeric
ComponentNumber(parts, i) ==
    IF i <= Len(parts) /\ IsNumericText(parts[i])
    THEN DigitPrefixValue(parts[i], 0) ELSE 0

\* ParsedVersion of a version string: <<major, minor, patch>>
Triple(s) ==
    LET parts == Split(WithoutLeadingV(s), ".")
    IN  <<ComponentNumber(parts, 1), ComponentNumber(parts, 2),
          ComponentNumber(parts, 3)>>

\* lexicographic order of two triples
TripleLess(a, b) ==
    \/ a[1] < b[1]
    \/ a[1] = b[1] /\ a[2] < b[2]
    \/ a[1] = b[1] /\ a[2] = b[2] /\ a[3] < b[3]

TripleGeq(a, b) == ~TripleLess(a, b)

\* the comparison operator a spec begins with (<<>> when it begins with none)
LeadingOperator(s) ==
    IF StartsWith(s, <<">", "=">>) THEN <<">", "=">>
    ELSE IF StartsWith(s, <<"<", "=">>) THEN <<"<", "=">>
    ELSE IF StartsWith(s, <<">">>) THEN <<">">>
    ELSE IF StartsWith(s, <<"<">>) THEN <<"<">>
    ELSE IF StartsWith(s, <<"=">>) THEN <<"=">>
    ELSE <<>>

\* the operator applied to two triples
Satisfies(a, operator, b) ==
    CASE operator = <<">", "=">> -> TripleGeq(a, b)
      [] operator = <<"<", "=">> -> TripleGeq(b, a)
      [] operator = <<">">> -> TripleLess(b, a)
      [] operator = <<"<">> -> TripleLess(a, b)
      [] operator = <<"=">> -> a = b

\* the rule of section 4.4 a (current, required) pair falls under
RuleOf(cur, req) ==
    LET c == WithoutLeadingV(cur)
        r == WithoutLeadingV(req)
    IN  IF c = r THEN "exact"
        ELSE IF LeadingOperator(r) # <<>> THEN "comparison"
        ELSE IF StartsWith(r, <<"^">>) THEN "caret"
        ELSE IF StartsWith(r, <<"~">>) THEN "tilde"
        ELSE IF Len(Split(r, ".")) < 3 THEN "partial"
        ELSE "fallthrough"

\* a match result reporting the current version exactly when it matches
OnMatchCurrent(matches, cur) ==
    IF matches THEN [matches |-> TRUE, targetVersion |-> WithoutLeadingV(cur)]
    ELSE [matches |-> FALSE]

Called == matchCalls > 0

(***************************************************************************)
(* C4: a pair whose strings are equal after one leading "v" is stripped    *)
(* from each matches, and the target is the normalized current version.    *)
(***************************************************************************)
C4_ExactMatch ==
    (Called /\ WithoutLeadingV(current) = WithoutLeadingV(required))
        => matchResult = [matches |-> TRUE,
                          targetVersion |-> WithoutLeadingV(current)]

\* isVersionMatch("v9.10.9", "9.10.9") has returned
C4_Witness ==
    /\ Called
    /\ current = <<"v", "9", ".", "1", "0", ".", "9">>
    /\ required = <<"9", ".", "1", "0", ".", "9">>
    /\ matchResult.matches

(***************************************************************************)
(* C5: for a spec beginning with >=, <=, >, <, = (not string-equal to      *)
(* current), matches is the operator applied to the lexicographic          *)
(* comparison of the two integer triples, and the target is current        *)
(* exactly when it matches.                                                *)
(***************************************************************************)
C5_ComparisonMatch ==
    (Called /\ RuleOf(current, required) = "comparison")
        => LET r == WithoutLeadingV(required)
               operator == LeadingOperator(r)
               operand == Substring(r, Len(operator))
           IN  matchResult =
                   OnMatchCurrent(
                       Satisfies(Triple(current), operator, Triple(operand)),
                       current)

(***************************************************************************)
(* C6: for a spec beginning with "^", matches iff the major components are *)
(* equal and current's triple is at least the spec's triple; the target is *)
(* current on match.                                                       *)
(***************************************************************************)
C6_CaretMatch ==
    (Called /\ RuleOf(current, required) = "caret")
        => LET operand == Substring(WithoutLeadingV(required), 1)
               a == Triple(current)
               b == Triple(operand)
           IN  matchResult =
                   OnMatchCurrent(a[1] = b[1] /\ TripleGeq(a, b), current)

(***************************************************************************)
(* C7: for a spec beginning with "~", matches iff major and minor are      *)
(* equal and current's patch number is numerically at least the spec's     *)
(* patch number, multi-digit patches included (patch 10 against patch 9);  *)
(* the target is current on match. Stated on the specs whose components    *)
(* are all numeric.                                                        *)
(***************************************************************************)
C7_TildeMatch ==
    (/\ Called
     /\ RuleOf(current, required) = "tilde"
     /\ \A c \in Range(Split(Substring(WithoutLeadingV(required), 1), ".")) :
            IsNumericText(c))
        => LET operand == Substring(WithoutLeadingV(required), 1)
               a == Triple(current)
               b == Triple(operand)
           IN  matchResult =
                   OnMatchCurrent(
                       a[1] = b[1] /\ a[2] = b[2] /\ a[3] >= b[3], current)

(***************************************************************************)
(* C8: a spec with fewer than 3 dot-separated components and no operator   *)
(* prefix matches iff each component it gives equals the corresponding     *)
(* component of current (components it does not give are wildcards), and   *)
(* the target is the normalized spec itself, not the current version.      *)
(***************************************************************************)
\* component i of the current version as text, "0" when it has none
CurrentComponent(cur, i) ==
    LET parts == Split(WithoutLeadingV(cur), ".")
    IN  IF i <= Len(parts) /\ parts[i] # <<>> THEN parts[i] ELSE <<"0">>

HasNoOperatorPrefix(r) ==
    r = <<>> \/ r[1] \notin {">", "<", "=", "^", "~"}

IsPartialPin(req) ==
    /\ HasNoOperatorPrefix(WithoutLeadingV(req))
    /\ Len(Split(WithoutLeadingV(req), ".")) < 3

C8_PartialMatch ==
    (Called /\ IsPartialPin(required))
        => LET given == Split(WithoutLeadingV(required), ".")
           IN  /\ matchResult.matches =
                      (\A i \in 1..Len(given) :
                           given[i] = CurrentComponent(current, i))
               /\ matchResult.targetVersion = WithoutLeadingV(required)

\* isVersionMatch("9.10.9", "9") has matched with target "9", although the
\* minor and patch components of current are not 0
C8_Witness ==
    /\ Called
    /\ current = <<"9", ".", "1", "0", ".", "9">>
    /\ required = <<"9">>
    /\ matchResult = [matches |-> TRUE, targetVersion |-> <<"9">>]

(***************************************************************************)
(* C9 as stated: under every rule a result with matches = false carries    *)
(* no target version.                                                      *)
(***************************************************************************)
C9_NoTargetWithoutMatch ==
    (Called /\ ~matchResult.matches)
        => "targetVersion" \notin DOMAIN matchResult

(***************************************************************************)
(* C9 as amended: a result with matches = false carries no target version  *)
(* under the exact, comparison, caret, tilde and fallthrough rules; under  *)
(* the partial-pin rule it carries the normalized spec as its target.      *)
(***************************************************************************)
C9_TargetWithoutMatchOnlyPartial ==
    (Called /\ ~matchResult.matches)
        => IF RuleOf(current, required) = "partial"
           THEN matchResult =
                    [matches |-> FALSE,
                     targetVersion |-> WithoutLeadingV(required)]
           ELSE matchResult = [matches |-> FALSE]

\* isVersionMatch("9.10.9", ">=10.9.9") has returned no match and no target
C9_Witness ==
    /\ Called
    /\ current = <<"9", ".", "1", "0", ".", "9">>
    /\ required = <<">", "=", "1", "0", ".", "9", ".", "9">>
    /\ matchResult = [matches |-> FALSE]

(***************************************************************************)
(* C10: version parsing is total. For every current and every operand,     *)
(* non-numeric components included, the comparison of the two triples is   *)
(* exactly one of less / equal / greater, and each comparison operator     *)
(* gives the result it gives with the non-numeric components replaced by 0.*)
(***************************************************************************)
\* a dotted string with every non-numeric component replaced by "0"
ZeroedParts(parts) ==
    [i \in 1..Len(parts) |->
        IF IsNumericText(parts[i]) THEN parts[i] ELSE <<"0">>]

Zeroed(s) == Join(ZeroedParts(Split(s, ".")))

C10_ParsingTotal ==
    (Called /\ RuleOf(current, required) = "comparison")
        => LET r == WithoutLeadingV(required)
               operator == LeadingOperator(r)
               operand == Substring(r, Len(operator))
               comparison == compareVersions(parseVersion(current),
                                             parseVersion(operand))
           IN  /\ Cardinality({p \in {"less", "equal", "greater"} :
                      \/ p = "less" /\ NumLt0(comparison)
                      \/ p = "equal" /\ NumEq0(comparison)
                      \/ p = "greater" /\ NumGt0(comparison)}) = 1
               /\ matchResult.matches =
                      VersionMatchProducer(
                          current, operator \o Zeroed(operand)).matches

(***************************************************************************)
(* Cache: claims                                                           *)
(***************************************************************************)
\* the step is a direct get of `key`
GetStep(key) == lastGet' # lastGet /\ lastGet'.key = key

\* the step is the lookup of cached() call i
LookupStep(i) == cacheCalls[i].pc = "idle" /\ cacheCalls'[i].pc # "idle"

\* the step is the return of the producer of cached() call i
ReturnStep(i) == cacheCalls[i].pc = "producer" /\ cacheCalls'[i].pc = "done"

\* the step is the failure of the producer of cached() call i
FailureStep(i) == cacheCalls[i].pc = "producer" /\ cacheCalls'[i].pc = "failed"

\* a set was made on `key` and its TTL has not run out at time t
Unexpired(key, t) ==
    key \in DOMAIN lastSet /\ t - lastSet[key].at <= lastSet[key].ttl

\* a set was made on `key` and its TTL has run out at time t
RunOut(key, t) ==
    key \in DOMAIN lastSet /\ t - lastSet[key].at > lastSet[key].ttl

(***************************************************************************)
(* C11: an entry set at time t with TTL T is returned by get while         *)
(* now - t <= T; a get that observes now - t > T returns absent and leaves *)
(* no entry under the key, and a read-through that observes it invokes its *)
(* producer.                                                               *)
(***************************************************************************)
C11_LazyExpiry ==
    [][ /\ \A key \in ClientKeys :
              /\ (GetStep(key) /\ Unexpired(key, now))
                     => /\ lastGet'.value = lastSet[key].value
                        /\ key \in DOMAIN Entries(caches')
              /\ (GetStep(key) /\ RunOut(key, now))
                     => /\ lastGet'.value = Null
                        /\ key \notin DOMAIN Entries(caches')
        /\ \A i \in CacheCallIds :
              (LookupStep(i) /\ RunOut(cacheCalls'[i].key, now))
                  => /\ cacheCalls'[i].pc = "producer"
                     /\ cacheCalls'[i].invoked = 1
                     /\ cacheCalls'[i].key \notin DOMAIN Entries(caches')
      ]_vars

\* a value set with TTL 10 was read 15 ms later: the get returned absent and
\* no entry is left
C11_Witness ==
    /\ lastGet # Null
    /\ lastGet.key \in DOMAIN lastSet
    /\ lastSet[lastGet.key].ttl = 10
    /\ lastSet[lastGet.key].value # Null
    /\ lastGet.at - lastSet[lastGet.key].at = 15
    /\ lastGet.value = Null
    /\ lastGet.key \notin DOMAIN Entries(caches)

(***************************************************************************)
(* C12: cached() returns the stored value without invoking the producer    *)
(* whenever an unexpired entry for the key exists, whatever the stored     *)
(* value is (null included); on a miss it invokes the producer once,       *)
(* stores its result and returns it.                                       *)
(***************************************************************************)
C12_ReadThrough ==
    [][\A i \in CacheCallIds :
          /\ LookupStep(i) =>
                LET key == cacheCalls'[i].key
                IN  IF Unexpired(key, now)
                    THEN /\ cacheCalls'[i].pc = "done"
                         /\ cacheCalls'[i].invoked = 0
                         /\ cacheCalls'[i].returned = lastSet[key].value
                    ELSE /\ cacheCalls'[i].pc = "producer"
                         /\ cacheCalls'[i].invoked = 1
          /\ ReturnStep(i) =>
                LET key == cacheCalls[i].key
                IN  /\ cacheCalls'[i].invoked = 1
                    /\ key \in DOMAIN Entries(caches')
                    /\ Entries(caches')[key].value = cacheCalls'[i].returned
      ]_vars

(***************************************************************************)
(* C13 as stated: every step of a cached() call whose producer fails       *)
(* leaves the cache state exactly as it was.                               *)
(***************************************************************************)
C13_FailureLeavesCacheUntouched ==
    [][\A i \in CacheCallIds :
          ((LookupStep(i) \/ FailureStep(i))
              /\ (IF LookupStep(i) THEN cacheCalls'[i] ELSE cacheCalls[i]).producer
                     = "throws")
              => caches' = caches
      ]_vars

(***************************************************************************)
(* C13 amended: when the producer passed to cached() fails, the call ends  *)
(* with the failure and without a value, and no step of the call creates   *)
(* or overwrites an entry; the only change the call can make to the cache  *)
(* is the removal, by its lookup, of an entry for that key whose TTL had   *)
(* already run out.                                                        *)
(***************************************************************************)
C13_FailureIsNotCached ==
    [][\A i \in CacheCallIds :
          /\ (LookupStep(i) /\ cacheCalls'[i].producer = "throws")
                => LET key == cacheCalls'[i].key
                   IN  /\ \A k \in DOMAIN Entries(caches') :
                              /\ k \in DOMAIN Entries(caches)
                              /\ Entries(caches')[k] = Entries(caches)[k]
                       /\ \A k \in DOMAIN Entries(caches) \ DOMAIN Entries(caches') :
                              k = key /\ RunOut(key, now)
          /\ FailureStep(i)
                => /\ caches' = caches
                   /\ cacheCalls'[i].rejected
                   /\ cacheCalls'[i].returned = Null
      ]_vars

\* a cached() call whose producer failed has ended, after its lookup had
\* found an entry whose TTL had run out: the entry is gone and nothing was
\* stored in its place
C13_Witness ==
    \E i \in CacheCallIds :
        /\ cacheCalls[i].pc = "failed"
        /\ cacheCalls[i].rejected
        /\ cacheCalls[i].key \in DOMAIN lastSet
        /\ RunOut(cacheCalls[i].key, now)
        /\ cacheCalls[i].key \notin DOMAIN Entries(caches)

(***************************************************************************)
(* C14: concurrent cached() calls that miss on the same key are not        *)
(* deduplicated: every call that finds no servable entry invokes its own   *)
(* producer, whatever other calls are in flight, every producer that       *)
(* returns stores its result, and the entry held is the one written by the *)
(* last set.                                                               *)
(***************************************************************************)
C14_NoSingleFlight ==
    /\ [](\A key \in DOMAIN Entries(caches) :
             /\ key \in DOMAIN lastSet
             /\ Entries(caches)[key].value = lastSet[key].value
             /\ Entries(caches)[key].timestamp = lastSet[key].at)
    /\ [][\A i \in CacheCallIds :
             /\ (LookupStep(i)
                   /\ (\/ ~Unexpired(cacheCalls'[i].key, now)
                       \/ lastSet[cacheCalls'[i].key].value = Null))
                   => /\ cacheCalls'[i].pc = "producer"
                      /\ cacheCalls'[i].invoked = 1
             /\ ReturnStep(i)
                   => LET key == cacheCalls[i].key
                      IN  /\ key \in DOMAIN Entries(caches')
                          /\ Entries(caches')[key].value = cacheCalls'[i].returned
                          /\ Entries(caches')[key].timestamp = now
         ]_vars

\* two cached() calls on one key were suspended at their producers together,
\* both producers ran and returned different values, and the entry holds one
\* of them
C14_Witness ==
    \E i, j \in CacheCallIds :
        /\ i # j
        /\ now = 0
        /\ cacheCalls[i].pc = "done" /\ cacheCalls[j].pc = "done"
        /\ cacheCalls[i].key = cacheCalls[j].key
        /\ cacheCalls[i].invoked = 1 /\ cacheCalls[j].invoked = 1
        /\ cacheCalls[i].returned # Null /\ cacheCalls[j].returned # Null
        /\ cacheCalls[i].returned # cacheCalls[j].returned
        /\ Entries(caches)[cacheCalls[i].key].value = cacheCalls[j].returned

(***************************************************************************)
(* Manager Detector: caching and failures                                  *)
(***************************************************************************)
\* the step is the invocation of detectAllManagers that starts run r
DetectCallStep(r) == detectRuns[r].pc = "idle" /\ detectRuns'[r].pc # "idle"

\* run q has completed after probing, and stored its list
CompletedProbing(q) == detectRuns[q].pc = "done" /\ detectRuns[q].log # <<>>

\* the Date.now() at which the list now held for detectAllManagers was stored
ListStoredAt == caches[NS_ENVIRONMENT_DETECTION][AllManagersKey].timestamp

\* a detectAllManagers call has completed and the list it stored is at most
\* five minutes old
CompletedWithinTTL ==
    /\ \E q \in DetectRunIds : CompletedProbing(q)
    /\ CacheHasEntry(caches, NS_ENVIRONMENT_DETECTION, AllManagersKey)
    /\ now - ListStoredAt <= 5 * 60 * 1000

(***************************************************************************)
(* C15: once a detectAllManagers call has completed, every further call    *)
(* made within the 5-minute TTL returns at once the descriptor list a      *)
(* completed call returned, and invokes no probe and starts no command;    *)
(* this holds whatever the probes found, unavailable results included.     *)
(***************************************************************************)
C15_DetectionCached ==
    [][\A r \in DetectRunIds :
          (DetectCallStep(r) /\ CompletedWithinTTL)
              => /\ detectRuns'[r].pc = "done"
                 /\ detectRuns'[r].log = <<>>
                 /\ \E q \in DetectRunIds :
                       /\ CompletedProbing(q)
                       /\ detectRuns'[r].returned = detectRuns[q].returned
                 /\ detectRuns'[r].returned.list =
                        caches'[NS_ENVIRONMENT_DETECTION][AllManagersKey].value.list
      ]_vars

\* twenty seconds or more after a run found neither nvm nor n, a second call
\* has returned the same two unavailable descriptors without probing
C15_Witness ==
    \E q, r \in DetectRunIds :
        /\ q # r
        /\ now >= 20 * 1000
        /\ now <= 5 * 60 * 1000
        /\ CompletedProbing(q)
        /\ detectRuns[r].pc = "done" /\ detectRuns[r].log = <<>>
        /\ detectRuns[r].returned = detectRuns[q].returned
        /\ Len(detectRuns[r].returned.list) = 2
        /\ \A i \in 1..2 : ~detectRuns[r].returned.list[i].available

\* the descriptors the probes of run r have produced so far
ProbeResults(r) == {detectRuns[r].nvmResult, detectRuns[r].nResult} \ {Null}

\* the descriptor records an exception caught while probing
FromException(result) ==
    "error" \in DOMAIN result /\ result.error = "error.message"

(***************************************************************************)
(* C16: a descriptor produced by a probe in which an exception was raised, *)
(* at any step of detectNVM or detectN (the path lookup after a successful *)
(* version command included), has available = false and error = message.   *)
(***************************************************************************)
C16_ProbeExceptionRecovered ==
    \A r \in DetectRunIds :
        \A result \in ProbeResults(r) :
            FromException(result) => ~result.available

(***************************************************************************)
(* Command execution: claims                                               *)
(***************************************************************************)
\* a callback of command c has run
CallbackRan(c) ==
    \/ commands[c].closeEmitted
    \/ commands[c].errorEmitted
    \/ commands[c].timer = "fired"

C18_DetectionReturns ==
    \A r \in DetectRunIds :
        (detectRuns[r].pc # "idle") ~> (detectRuns[r].pc = "done")

(***************************************************************************)
(* Config Resolver: failures and the manifest fields                       *)
(***************************************************************************)
\* the step is a step of getProjectNodeVersion run r
ConfigRunStep(r) == configRuns'[r] # configRuns[r]

\* the pin file run r is about to consult
PinSource(r) == SourcePriority[configRuns[r].check]

\* every character of the content is white space
IsBlank(content) == \A i \in 1..Len(content) : content[i] \in WhiteSpace

\* the file is missing, unreadable, unparsable or blank
NoConfigOnDisk(file) ==
    \/ ~file.exists
    \/ ~file.readable
    \/ ("parses" \in DOMAIN file /\ ~file.parses)
    \/ ("content" \in DOMAIN file /\ IsBlank(file.content))

\* consulting the source reads the file: no value read earlier is served
ReadsPinFile(source) ==
    \/ source = ".tool-versions"
    \/ CacheGet(caches, NS_CONFIG_FILES, FileKey(source), now) = Null

ReadsManifest == CacheGet(caches, NS_CONFIG_FILES, PackageJsonKey, now) = Null

\* the last source run r has consulted in the next state
LastRead(r) == configRuns'[r].reads[Len(configRuns'[r].reads)]

(***************************************************************************)
(* C19: a config source that is read and is missing, unreadable, malformed *)
(* (unparsable package.json) or blank yields no config from that source    *)
(* without raising, and getProjectNodeVersion goes on to the next source   *)
(* in priority order; when package.json, the last source, is reached and   *)
(* yields nothing, the result is absent.                                   *)
(***************************************************************************)
C19_ReadFailureRecovered ==
    [][\A r \in ConfigRunIds :
          /\ (/\ configRuns[r].pc = "checks"
              /\ ConfigRunStep(r)
              /\ ReadsPinFile(PinSource(r))
              /\ NoConfigOnDisk(files[PinSource(r)]))
                => /\ LastRead(r).source = PinSource(r)
                   /\ ~Yields(LastRead(r))
                   /\ IF configRuns[r].check < 3
                      THEN /\ configRuns'[r].pc = "checks"
                           /\ configRuns'[r].check = configRuns[r].check + 1
                      ELSE configRuns'[r].pc = "package.json"
          /\ (/\ configRuns[r].pc = "package.json"
              /\ ConfigRunStep(r)
              /\ ReadsManifest
              /\ NoConfigOnDisk(files["package.json"]))
                => /\ ~Yields(LastRead(r))
                   /\ configRuns'[r].pc = "done"
                   /\ configRuns'[r].returned = Null
      ]_vars

\* with an unreadable .nvmrc, no other pin file and a package.json that does
\* not parse, a run has consulted all five sources and returned absent
C19_Witness ==
    \E r \in ConfigRunIds :
        /\ files[".nvmrc"] = UnreadableFile
        /\ files[".node-version"] = AbsentFile
        /\ files[".tool-versions"] = AbsentFile
        /\ files["package.json"] = MalformedJsonFile
        /\ configRuns[r].pc = "done"
        /\ configRuns[r].computed
        /\ Len(configRuns[r].reads) = 5
        /\ configRuns[r].returned = Null

\* package.json declares the field: a non-empty string
Declares(field) == field # Null /\ field.str # <<>>

(***************************************************************************)
(* C20: when no pin file yielded a version and package.json, as read,      *)
(* declares both volta.node and engines.node, the result is the volta.node *)
(* value with source "package.json (volta.node)"; engines.node is returned *)
(* only when volta.node is not declared; and a result from a manifest      *)
(* field is returned only by a run in which no pin file yielded a version. *)
(***************************************************************************)
C20_VoltaBeforeEngines ==
    /\ [][\A r \in ConfigRunIds :
             (/\ configRuns[r].pc = "package.json"
              /\ ConfigRunStep(r)
              /\ ReadsManifest
              /\ ~NoConfigOnDisk(files["package.json"]))
                => LET manifest == files["package.json"]
                   IN  /\ Declares(manifest.voltaNode)
                          => configRuns'[r].returned =
                                 [version |-> normalizeVersion(manifest.voltaNode.str),
                                  source |-> "package.json (volta.node)"]
                       /\ (~Declares(manifest.voltaNode)
                             /\ Declares(manifest.enginesNode))
                          => configRuns'[r].returned =
                                 [version |-> normalizeVersion(manifest.enginesNode.str),
                                  source |-> "package.json (engines.node)"]
         ]_vars
    /\ [](\A r \in ConfigRunIds :
             LET run == configRuns[r]
             IN  (run.pc = "done" /\ run.computed /\ run.returned # Null)
                     => /\ run.returned.source \in
                               {"package.json (volta.node)",
                                "package.json (engines.node)"}
                           => /\ Len(run.reads) >= 4
                              /\ \A i \in 1..3 :
                                    /\ run.reads[i].source = SourcePriority[i]
                                    /\ ~Yields(run.reads[i])
                        /\ run.returned.source = "package.json (engines.node)"
                           => ~Yields(run.reads[4]))

\* package.json declares engines.node ">=18" and volta.node "18.2.1", no pin
\* file yielded a version, and a run has returned "18.2.1" from volta.node
C20_Witness ==
    \E r \in ConfigRunIds :
        /\ files["package.json"] =
               JsonFile(Str(<<">", "=", "1", "8">>), Str(<<"1", "8", ".", "2", ".", "1">>))
        /\ configRuns[r].pc = "done"
        /\ configRuns[r].computed
        /\ Len(configRuns[r].reads) = 4
        /\ configRuns[r].returned =
               [version |-> <<"1", "8", ".", "2", ".", "1">>,
                source |-> "package.json (volta.node)"]


(***************************************************************************)
(* Config Resolver: operator specs, by source                              *)
(***************************************************************************)
ManifestSources == {"package.json (volta.node)", "package.json (engines.node)"}

\* the text the source holds on disk, as its reader extracts it
DeclaredText(source) ==
    CASE source = "package.json (volta.node)" -> files["package.json"].voltaNode.str
      [] source = "package.json (engines.node)" ->
             files["package.json"].enginesNode.str
      [] source = ".tool-versions" -> readToolVersions(files[source]).str
      [] OTHER -> Trim(files[source].content)

\* the text carries one of the markers >=, <=, >, <, =, ^, ~
CarriesMarker(text) == \E m \in OperatorMarkers : Includes(text, m)

\* run r has resolved the workspace to a spec taken from one of the sources
ResolvedFrom(r, sources) ==
    /\ configRuns[r].pc = "done"
    /\ configRuns[r].returned # Null
    /\ configRuns[r].returned.source \in sources

\* isVersionMatch has been called on what run r resolved to
MatchedOn(r) ==
    /\ matchCalls > 0
    /\ configRuns[r].pc = "done"
    /\ configRuns[r].returned # Null
    /\ required = configRuns[r].returned.version

(***************************************************************************)
(* C21: a spec taken from package.json (volta.node or engines.node) that   *)
(* carries one of the markers >=, <=, >, <, =, ^, ~ and a three-part       *)
(* numeric version is returned as the bare numeric triple, and             *)
(* isVersionMatch on it never takes the comparison or the range branch.    *)
(***************************************************************************)
C21_ManifestSpecCollapsed ==
    \A r \in ConfigRunIds :
        (/\ ResolvedFrom(r, ManifestSources)
         /\ CarriesMarker(DeclaredText(configRuns[r].returned.source))
         /\ TripleMatch(DeclaredText(configRuns[r].returned.source)) # Null)
            => /\ configRuns[r].returned.version =
                     TripleMatch(DeclaredText(configRuns[r].returned.source)).str
               /\ MatchedOn(r) =>
                     RuleOf(current, required) \notin {"comparison", "caret", "tilde"}

(***************************************************************************)
(* C22: a spec read from a pin file (.nvmrc, .node-version,                *)
(* .tool-versions) that carries one of the markers >=, <=, >, <, =, ^, ~   *)
(* is returned by getProjectNodeVersion with the operator kept: the        *)
(* returned version is the text of the source less one leading "v".        *)
(***************************************************************************)
C22_PinSpecVerbatim ==
    \A r \in ConfigRunIds :
        (/\ ResolvedFrom(r, {".nvmrc", ".node-version", ".tool-versions"})
         /\ CarriesMarker(DeclaredText(configRuns[r].returned.source)))
            => configRuns[r].returned.version =
                  WithoutLeadingV(DeclaredText(configRuns[r].returned.source))

(***************************************************************************)
(* Config Resolver: hasConfigFiles                                         *)
(***************************************************************************)
\* the configuration files present under the root
Present == {name \in ConfigFileNames : files[name] # AbsentFile}

\* the root holds package.json alone, with neither volta.node nor
\* engines.node
BareManifestOnly ==
    /\ Present = {"package.json"}
    /\ files["package.json"] = JsonFile(Null, Null)

\* getProjectNodeVersion has run its sources and returned
Resolved(r) == configRuns[r].pc = "done" /\ configRuns[r].computed

(***************************************************************************)
(* C23: hasConfigFiles(root) is true exactly when one of .nvmrc,           *)
(* .node-version, .tool-versions, package.json exists under the root,      *)
(* whatever the files hold and whatever the cache holds; for a root whose  *)
(* only file is a package.json without volta.node and engines.node it is   *)
(* true while getProjectNodeVersion returns absent.                        *)
(***************************************************************************)
C23_HasConfigFiles ==
    /\ hasConfig # Null => (hasConfig.result <=> Present # {})
    /\ BareManifestOnly =>
          /\ hasConfig # Null => hasConfig.result
          /\ \A r \in ConfigRunIds : Resolved(r) => configRuns[r].returned = Null

C23_Witness ==
    /\ BareManifestOnly
    /\ hasConfig = [result |-> TRUE]
    /\ \E r \in ConfigRunIds : Resolved(r) /\ configRuns[r].returned = Null

(***************************************************************************)
(* Config Resolver: .tool-versions                                         *)
(***************************************************************************)
\* the lines of the file, each less its surrounding white space
ToolLines == [i \in DOMAIN Split(files[".tool-versions"].content, "\n") |->
                 Trim(Split(files[".tool-versions"].content, "\n")[i])]

\* the positions of the lines that begin with the token "nodejs "
NodejsLines == {i \in DOMAIN ToolLines : StartsWith(ToolLines[i], NodejsToken)}

\* the remainder of line i after the token, trimmed
Remainder(i) == Trim(SubSeq(ToolLines[i], Len(NodejsToken) + 1, Len(ToolLines[i])))

\* the reads of .tool-versions made by the runs so far
ToolReads ==
    UNION {{configRuns[r].reads[k].version :
               k \in {j \in DOMAIN configRuns[r].reads :
                         configRuns[r].reads[j].source = ".tool-versions"}} :
           r \in ConfigRunIds}

ToolFileRead ==
    /\ files[".tool-versions"].exists
    /\ files[".tool-versions"].readable
    /\ ToolReads # {}

StoreEntries(c) ==
    UNION {{<<ns, k, c[ns][k]>> : k \in DOMAIN c[ns]} : ns \in DOMAIN c}

\* the step is the call `op` of a client
CallStep(op) == cacheOps' = cacheOps + 1 /\ lastCall'.op = op

(***************************************************************************)
(* C24: delete(namespace) with the key omitted removes every entry of the  *)
(* namespace in one step and leaves the entries of the other namespaces as *)
(* they are; delete(namespace, key), for every key string, removes the     *)
(* entry under that key and leaves every other entry as it is; clear()     *)
(* removes every entry of every namespace.                                 *)
(***************************************************************************)
C24_DeleteAndClear ==
    [][/\ (CallStep("delete") /\ lastCall'.key = Null) =>
              StoreEntries(caches') =
                  {e \in StoreEntries(caches) : e[1] # lastCall'.namespace}
       /\ (CallStep("delete") /\ lastCall'.key # Null) =>
              StoreEntries(caches') =
                  {e \in StoreEntries(caches) :
                      ~(e[1] = lastCall'.namespace /\ e[2] = lastCall'.key.str)}
       /\ CallStep("clear") => StoreEntries(caches') = {}]_vars

(***************************************************************************)
(* Manager Detector: the aggregate entry and the per-tool entries          *)
(***************************************************************************)
\* the value the store serves under the key now, Null when the entry is
\* absent or expired
Served(ns, key) == CacheGet(caches, ns, key, now)

\* the per-tool entries a detection consults are held and have not expired:
\* the nvm entry, and the n entry when nvm is not available
PerToolValid ==
    /\ Served(NS_MANAGER_DETECTION, NvmKey(platform)) # Null
    /\ \/ Served(NS_MANAGER_DETECTION, NvmKey(platform)).available
       \/ Served(NS_MANAGER_DETECTION, NManagerKey) # Null

\* the list the per-tool entries give
PerToolList ==
    IF Served(NS_MANAGER_DETECTION, NvmKey(platform)).available
    THEN <<Served(NS_MANAGER_DETECTION, NvmKey(platform))>>
    ELSE <<Served(NS_MANAGER_DETECTION, NvmKey(platform)),
           Served(NS_MANAGER_DETECTION, NManagerKey)>>

\* the events of a log that start a child process
Spawns(log) ==
    {k \in DOMAIN log :
        log[k] \in {"spawn nvm", "spawn shell", "spawn n", "spawn which"}}

(***************************************************************************)
(* C25: when the aggregate "all_managers" entry is absent or expired while *)
(* the per-tool entries are still valid, a detectAllManagers call returns  *)
(* the list the per-tool entries give and stores it again under            *)
(* "all_managers", without starting a single command.                      *)
(***************************************************************************)
C25_RebuiltFromPerTool ==
    [][\A r \in DetectRunIds :
          (/\ DetectCallStep(r)
           /\ Served(NS_ENVIRONMENT_DETECTION, AllManagersKey) = Null
           /\ PerToolValid)
              => /\ detectRuns'[r].pc = "done"
                 /\ detectRuns'[r].returned = ListValue(PerToolList)
                 /\ Spawns(detectRuns'[r].log) = {}
                 /\ CacheGet(caches', NS_ENVIRONMENT_DETECTION, AllManagersKey,
                             now') = ListValue(PerToolList)]_vars

\* a call has rebuilt a two-tool list from the per-tool entries alone
C25_Witness ==
    \E r \in DetectRunIds :
        /\ detectRuns[r].pc = "done"
        /\ detectRuns[r].log = <<"detectNVM called", "detectNVM returned",
                                 "detectN called", "detectN returned">>
        /\ Served(NS_ENVIRONMENT_DETECTION, AllManagersKey) = detectRuns[r].returned

(***************************************************************************)
(* Manager Detector: getPreferredManager and isManagerAvailable            *)
(***************************************************************************)
\* call r of the method has returned
Returned(r, method) ==
    /\ queries[r] # Null
    /\ queries[r].method = method
    /\ ~queries[r].pending

\* the descriptors detectAllManagers handed to call r
ProbedBy(r) == detectRuns[r].returned.list

\* the positions of the available descriptors among them
AvailableIn(r) == {i \in DOMAIN ProbedBy(r) : ProbedBy(r)[i].available}

(***************************************************************************)
(* C26: getPreferredManager returns absent when no probed manager is       *)
(* available, the available descriptor when there is exactly one, and with *)
(* several the nvm descriptor if it is among them, otherwise the first     *)
(* available one in probe order; it never returns a descriptor with        *)
(* available = false.                                                      *)
(***************************************************************************)
C26_PreferredManager ==
    \A r \in DetectRunIds :
        Returned(r, "getPreferredManager") =>
            IF AvailableIn(r) = {} THEN queries[r].value = Null
            ELSE /\ queries[r].value # Null
                 /\ queries[r].value.available
                 /\ \E i \in AvailableIn(r) :
                       /\ queries[r].value = ProbedBy(r)[i]
                       /\ \/ AvailableIn(r) = {i}
                          \/ ProbedBy(r)[i].type = "nvm"
                          \/ /\ \A j \in AvailableIn(r) :
                                    ProbedBy(r)[j].type # "nvm"
                             /\ \A j \in AvailableIn(r) : i <= j

\* a call has returned the secondary tool, probed after an unavailable nvm
C26_Witness ==
    \E r \in DetectRunIds :
        /\ Returned(r, "getPreferredManager")
        /\ Len(ProbedBy(r)) = 2
        /\ ~ProbedBy(r)[1].available
        /\ queries[r].value = ProbedBy(r)[2]
        /\ queries[r].value.type = "n"

\* the per-tool key of a manager type
ToolKey(type) == IF type = "nvm" THEN NvmKey(platform) ELSE NManagerKey

\* call r of isManagerAvailable returns in this step
AvailabilityReturns(r) ==
    /\ queries'[r] # Null
    /\ queries'[r].method = "isManagerAvailable"
    /\ ~queries'[r].pending
    /\ queries[r] = Null \/ queries[r].pending

\* the result of the probe of the tool call r asks about: the one its own
\* detection obtained, else the one the store holds when the call returns
ProbeOf(r) ==
    LET type == queries'[r].type
        own == {i \in DOMAIN detectRuns'[r].returned.list :
                   detectRuns'[r].returned.list[i].type = type}
    IN  IF own # {}
        THEN detectRuns'[r].returned.list[CHOOSE i \in own : TRUE]
        ELSE CacheGet(caches', NS_MANAGER_DETECTION, ToolKey(type), now')

(***************************************************************************)
(* C27: isManagerAvailable(type), for type nvm or n, returns true exactly  *)
(* when the probe of that tool reports it available, whatever the other    *)
(* tool is; for "unknown" it returns false, starts no probe and leaves the *)
(* store as it is.                                                         *)
(***************************************************************************)
C27_ManagerAvailable ==
    [][\A r \in DetectRunIds :
          AvailabilityReturns(r) =>
              IF queries'[r].type = "unknown"
              THEN /\ queries'[r].value = FALSE
                   /\ detectRuns'[r].log = <<>>
                   /\ caches' = caches
              ELSE ProbeOf(r) # Null =>
                       (queries'[r].value <=> ProbeOf(r).available)]_vars

(***************************************************************************)
(* Terminal Service: automatic switching                                   *)
(***************************************************************************)
\* what the workspace requires: the version its configuration files resolve
\* to, read afresh
WorkspaceRequires == ProjectNodeVersion(EmptyCaches, now, files).result

\* the comparison of the version the manager reports with the required one
WorkspaceMatch ==
    VersionMatchProducer(nodeVersion.str, WorkspaceRequires.version)

\* the workspace has a required version that the current version does not
\* match
RequiredUnmatched ==
    /\ WorkspaceRequires # Null
    /\ Truthy(nodeVersion)
    /\ ~WorkspaceMatch.matches

\* the match's target version if present, else the required version
SwitchTarget ==
    IF "targetVersion" \in DOMAIN WorkspaceMatch
    THEN WorkspaceMatch.targetVersion
    ELSE WorkspaceRequires.version

\* the terminal's open event came while auto-switch was enabled and a
\* manager was active, in a workspace whose requirement is unmatched
OpenedForSwitch(tm) ==
    /\ terminals[tm].opened # Null
    /\ terminals[tm].opened.autoSwitchEnabled
    /\ terminals[tm].opened.activeManager \in {Str("nvm"), Str("n")}
    /\ RequiredUnmatched

\* the text of the switch command of manager m for version v
SwitchText(m, v) ==
    IF m = Str("nvm") THEN <<"n", "v", "m", " ", "u", "s", "e", " ">> \o v
    ELSE <<"n", " ">> \o v

\* the terminal was opened so, and the switch command of its manager for
\* the target was sent to it
SwitchSent(tm) ==
    /\ OpenedForSwitch(tm)
    /\ \E i \in DOMAIN terminals[tm].sent :
           terminals[tm].sent[i] =
               SwitchText(terminals[tm].opened.activeManager, SwitchTarget)

IsSwitchCommand(text) ==
    \/ StartsWith(text, <<"n", "v", "m", " ", "u", "s", "e", " ">>)
    \/ StartsWith(text, <<"n", " ">>)

\* C29: when autoSwitch or terminalIntegration is false at activation, no
\* version-switch command is ever sent to any terminal, whether it existed
\* at activation or was opened later
C29_NoSwitchWhenDisabled ==
    (~settings.autoSwitch \/ ~settings.terminalIntegration)
    => \A tm \in TerminalIds :
           \A i \in DOMAIN terminals[tm].sent :
               ~IsSwitchCommand(terminals[tm].sent[i])

(***************************************************************************)
(* Version Matcher: alias tokens                                           *)
(***************************************************************************)
\* C31: for required in {"lts", "stable", "latest"} and every concrete
\* current version, a call of isVersionMatch reports matches = false
C31_AliasUnresolved ==
    (matchCalls > 0 /\ required \in AliasTokens) => ~matchResult.matches

\* a call with an alias token has returned
C31_Witness ==
    /\ matchCalls > 0
    /\ required \in AliasTokens
    /\ matchResult # Null
    /\ ~matchResult.matches

(***************************************************************************)
(* Terminal Service: concurrent handlers of one terminal                   *)
(***************************************************************************)
\* the positions of the version-switch commands among the texts sent to a
\* terminal
SwitchesSent(tm) ==
    {i \in DOMAIN terminals[tm].sent : IsSwitchCommand(terminals[tm].sent[i])}

\* C32: a version-switch command is sent to a given terminal at most once,
\* under every interleaving of the handleTerminalCreated invocations made
\* for it by the onDidOpenTerminal listener and checkAllExistingTerminals
C32_SwitchedAtMostOnce ==
    \A tm \in TerminalIds : Cardinality(SwitchesSent(tm)) <= 1

(***************************************************************************)
(* Terminal Service: processedTerminals and closed terminals               *)
(***************************************************************************)
\* C37: processedTerminals holds only ids of terminals that are still open;
\* once the close event of a terminal has been handled its id is not in
\* the set and is never added again, a handler in flight at close time
\* included
C37_ProcessedAreOpen ==
    \A tm \in TerminalIds :
        terminals[tm].processed => terminals[tm].status = "open"

\* ---------------------------------------------------------------------
\* C38: when a required version is configured but the current version
\* cannot be determined, handleTerminalCreated sends no switch command and
\* marks the terminal processed, and no switch command is sent to that
\* terminal afterwards; a handler that ends in its catch block leaves the
\* terminal unmarked
HandlerThrew(tm) ==
    \E caller \in Callers :
        /\ terminals[tm].calls[caller].pc # "threw"
        /\ terminals'[tm].calls[caller].pc = "threw"

C38_UndeterminedNeverSwitched ==
    [][\A tm \in TerminalIds :
           /\ terminals'[tm].undetermined =>
                  Cardinality(SwitchesSent(tm)') = Cardinality(SwitchesSent(tm))
           /\ (~terminals[tm].undetermined /\ terminals'[tm].undetermined) =>
                  terminals'[tm].processed
           /\ HandlerThrew(tm) =>
                  terminals'[tm].processed = terminals[tm].processed]_vars

\* ---------------------------------------------------------------------
\* C39: the value detectAndSetActiveManager returns is the active manager
\* the service holds afterwards, and after a detection that found nothing
\* available and returned null, a following getActiveManager does not
\* return a manager that an earlier detection selected
FoundNothing(call) ==
    /\ call.found # Null
    /\ \A i \in DOMAIN call.found.list : ~call.found.list[i].available

C39_ReturnedIsActive ==
    /\ (/\ queries # <<>>
        /\ queries[Len(queries)].method = "detectAndSetActiveManager")
           => queries[Len(queries)].returned = activeManager
    /\ \A i \in 1..(Len(queries) - 1) :
           (/\ queries[i].method = "detectAndSetActiveManager"
            /\ FoundNothing(queries[i])
            /\ queries[i].returned = Null
            /\ queries[i + 1].method = "getActiveManager")
               => (queries[i + 1].returned = Null \/ queries[i + 1].found # Null)

\* ---------------------------------------------------------------------
\* C40: invalidateVersionCaches(m) removes exactly the current-version and
\* installed-versions entries of manager m; every available-versions entry
\* and every entry of another manager stays
EntriesOf(manager) ==
    {currentVersion(manager, platform), installedVersions(manager, platform)}

C40_InvalidatesOwnEntries ==
    (lastCall # Null /\ lastCall.op = "invalidateVersionCaches")
        => DOMAIN caches = lastCall.before \ EntriesOf(lastCall.manager.str)

\* ---------------------------------------------------------------------
\* C36: getCurrentVersion starts `node --version` at most once per cache
\* window: not within 5 seconds of an invocation that obtained a version,
\* and not within 2 seconds of one whose command was unsuccessful
ExecutionStarts == Len(commands') > Len(commands)

C36_OncePerWindow ==
    [][ExecutionStarts =>
           \A i \in VersionCallIds :
               /\ (cacheCalls[i].pc = "done" /\ cacheCalls[i].outcome = "version")
                      => now - cacheCalls[i].at > ObtainedTTL
               /\ (cacheCalls[i].pc = "done"
                   /\ cacheCalls[i].outcome = "unsuccessful")
                      => now - cacheCalls[i].at > NullTTL]_vars

\* ---------------------------------------------------------------------
\* C33: after an eviction the evicted entry stays absent until a call that
\* started after the eviction stores a value: a detectAllManagers run that
\* was in flight when the eviction was made does not store its list
AllManagersEntry(c) ==
    IF CacheHasEntry(c, NS_ENVIRONMENT_DETECTION, AllManagersKey)
    THEN c[NS_ENVIRONMENT_DETECTION][AllManagersKey]
    ELSE Null

RunReturns(r) == detectRuns[r].pc # "done" /\ detectRuns'[r].pc = "done"

C33_NoRepopulation ==
    [][\A r \in DetectRunIds :
           (lastCall # Null /\ r \in lastCall.inFlight /\ RunReturns(r))
               => AllManagersEntry(caches') = AllManagersEntry(caches)]_vars

\* ---------------------------------------------------------------------
\* C34: every list detectAllManagers returns, computed or served from the
\* cache, has one or two descriptors, the first of type nvm, a second one
\* of type n and only after an unavailable first, and at most one
\* descriptor of the list is available
WellFormedList(list) ==
    /\ Len(list) \in {1, 2}
    /\ list[1].type = "nvm"
    /\ Len(list) = 2 => (list[2].type = "n" /\ ~list[1].available)
    /\ Cardinality({i \in DOMAIN list : list[i].available}) <= 1

C34_ListShape ==
    \A r \in DetectRunIds :
        (detectRuns[r].pc = "done" /\ detectRuns[r].returned # Null)
            => WellFormedList(detectRuns[r].returned.list)

\* a run served from the cache a list of two descriptors with n available
C34_Witness ==
    \E r \in DetectRunIds :
        /\ detectRuns[r].pc = "done"
        /\ detectRuns[r].log = <<>>
        /\ detectRuns[r].returned # Null
        /\ Len(detectRuns[r].returned.list) = 2
        /\ detectRuns[r].returned.list[2].available
        /\ WellFormedList(detectRuns[r].returned.list)

\* ---------------------------------------------------------------------
\* C35: without eviction, a getProjectNodeVersion call made more than the
\* aggregate TTL (2 minutes) after the last change of a pin file returns
\* what the file holds, whatever direct readNvmrc / readNodeVersion calls
\* were made in between
C35_StalenessBounded ==
    (/\ lastCall # Null
     /\ lastCall.op = "getProjectNodeVersion"
     /\ ".nvmrc" \in DOMAIN lastSet
     /\ lastCall.at > lastSet[".nvmrc"] + ProjectVersionTTL)
        => lastCall.returned =
               ProjectNodeVersion(EmptyCaches, lastCall.at, files).result

=============================================================================
